---- MODULE Spec2Model ----
(***************************************************************************)
(* Model of the ARIA research-assistant backend: the StorageManager facade *)
(* (backend/lambda_package/storage_manager.py) over the file adapter       *)
(* (backend/database.py), the MongoDB adapter (backend/mongodb_service.py) *)
(* and the DynamoDB adapter (backend/lambda_package/dynamodb_service.py),  *)
(* and the request handlers of api/main.py that call the facade.           *)
(*                                                                         *)
(* A Python dict is a TLA+ function whose DOMAIN is the set of keys, so    *)
(* that "key in d", d.get(key) and d.update(u) are modelled as the code    *)
(* computes them.  A handler is one action: it contains every facade call  *)
(* the handler makes, and every facade call contains every adapter call.   *)
(***************************************************************************)
EXTENDS Integers, Sequences, FiniteSets, TLC

\* ---------------------------------------------------------------- bounds
MaxClock == 1
MaxMongoDocs == 2
MaxRecords == 2
MaxHistory == 3
MaxContent == 4
MaxSegments == 4

\* ------------------------------------------------------- input alphabets
Sids == {"s1"}
QueryOrder == <<"t1", "t2">>
Topics == {QueryOrder[i] : i \in 1..Len(QueryOrder)}
ResearchTopics == {"t1"}
Messages == {"hello"}
Sections == {"summary", "notes"}
Responses == {"answer"}
NumResults == {1, 2}
Stages == <<"search", "summary", "notes", "insights", "suggestions", "questions", "report">>

\* ------------------------------------------------------------ Python values
\* Python's None.
None == [none |-> TRUE]

IsNone(v) == "none" \in DOMAIN v

\* A reference to (or nested copy of) a stored session document, as held under
\* a backend key of the mapping that StorageManager.get_session returns.
Ref == [ref |-> TRUE]

\* The empty dict {}.
EmptyDict == [k \in {} |-> None]

\* d.get(key) for a dict of documents.
DictGet(d, key) == IF key \in DOMAIN d THEN d[key] ELSE None

\* d.get(key, []) for a dict of lists.
DictGetList(d, key) == IF key \in DOMAIN d THEN d[key] ELSE <<>>

\* d[key] = value
DictSet(d, key, value) == (key :> value) @@ d

\* del d[key]
DictDel(d, key) == [k \in DOMAIN d \ {key} |-> d[k]]

\* d.update(u): the keys of u win.
DictUpdate(d, u) == u @@ d

\* Python truthiness of a document-or-None: None and {} are falsy.
Truthy(v) == ~IsNone(v) /\ DOMAIN v # {}

\* x or y
PyOr(x, y) == IF Truthy(x) THEN x ELSE y

RECURSIVE SeqDropFirst(_, _)
\* only the first item with the query is removed (mutation of SeqFilterOut)
SeqDropFirst(s, query) ==
    IF s = <<>> THEN <<>>
    ELSE IF Head(s).query # query
         THEN <<Head(s)>> \o SeqDropFirst(Tail(s), query)
         ELSE Tail(s)

RECURSIVE SeqFilterOut(_, _)
\* [item for item in s if item.get("query") != query]
SeqFilterOut(s, query) ==
    IF s = <<>> THEN <<>>
    ELSE IF Head(s).query # query
         THEN <<Head(s)>> \o SeqFilterOut(Tail(s), query)
         ELSE SeqFilterOut(Tail(s), query)

\* ------------------------------------------------------------ state
VARIABLES
    \* StorageManager fields (storage_manager.py __init__ / initialize)
    mongo_service,        \* TRUE iff self.mongo_service is not None
    dynamo_service,       \* TRUE iff self.dynamo_service is not None
    use_mongodb,          \* self.use_mongodb
    file_service,         \* TRUE iff hasattr(self, 'file_service')
    database,             \* mongodb_service.database is not None
    initialized,          \* the lifespan start-up has run
    \* database.py: in-memory maps and the three JSON files
    research_sessions, search_history, saved_research,
    sessions_file, search_history_file, saved_research_file,
    \* MongoDB collections, in insertion order
    m_sessions, m_search_history, m_saved_research,
    \* DynamoDB tables
    d_sessions, d_search_history, d_saved_research,
    now,                  \* datetime.now()
    live,                 \* ids whose create_session returned, not deleted since
    last                  \* what the last request did and returned

cfgvars == <<mongo_service, dynamo_service, use_mongodb, file_service, database, initialized>>
filevars == <<research_sessions, search_history, saved_research,
              sessions_file, search_history_file, saved_research_file>>
mongovars == <<m_sessions, m_search_history, m_saved_research>>
dynamovars == <<d_sessions, d_search_history, d_saved_research>>
vars == <<cfgvars, filevars, mongovars, dynamovars, now, live, last>>

\* The persisted state as one value, threaded through the adapter operators.
Store == [research_sessions |-> research_sessions,
          search_history |-> search_history,
          saved_research |-> saved_research,
          sessions_file |-> sessions_file,
          search_history_file |-> search_history_file,
          saved_research_file |-> saved_research_file,
          m_sessions |-> m_sessions,
          m_search_history |-> m_search_history,
          m_saved_research |-> m_saved_research,
          d_sessions |-> d_sessions,
          d_search_history |-> d_search_history,
          d_saved_research |-> d_saved_research]

\* ------------------------------------------------- database.py (file adapter)
\* A JSON file on disk: valid with the data written, or a truncated write.
FileOf(data) == [valid |-> TRUE, data |-> data]
CorruptFile == [valid |-> FALSE, data |-> EmptyDict]

\* json.dump raises ValueError("Circular reference detected") when a session
\* document holds itself under its "file" key; the file was opened with 'w'
\* and is left with the chunks written so far.
Circular(sessions) ==
    \E s \in DOMAIN sessions :
        "file" \in DOMAIN sessions[s] /\ ~IsNone(sessions[s]["file"])

\* save_data_to_file(SESSIONS_FILE, research_sessions): only IOError is caught.
save_sessions_file(st) ==
    IF Circular(st.research_sessions)
    THEN [st |-> [st EXCEPT !.sessions_file = CorruptFile], raised |-> TRUE]
    ELSE [st |-> [st EXCEPT !.sessions_file = FileOf(st.research_sessions)],
          raised |-> FALSE]

file_create_session(st, session_id, t) ==
    LET session == [session_id |-> session_id,
                    user_id |-> None,
                    created_at |-> t,
                    updated_at |-> t,
                    research_history |-> <<>>,
                    conversation_history |-> <<>>]
        st1 == [st EXCEPT !.research_sessions =
                              DictSet(st.research_sessions, session_id, session)]
        sv == save_sessions_file(st1)
    IN [st |-> sv.st, raised |-> sv.raised, ret |-> session]

\* load_data_from_file: the parsed content, or the default when json.load
\* raises JSONDecodeError on a truncated file
load_data_from_file(file, default_value) ==
    IF file.valid THEN file.data ELSE default_value

\* load_all_data, run when the module is imported: the three maps as read
\* from the three files
load_all_data(st) ==
    [research_sessions |-> load_data_from_file(st.sessions_file, EmptyDict),
     search_history |-> load_data_from_file(st.search_history_file, EmptyDict),
     saved_research |-> load_data_from_file(st.saved_research_file, EmptyDict)]

file_get_session(st, session_id) == DictGet(st.research_sessions, session_id)

\* research_sessions[session_id].update(updates): a "file" value that refers
\* to the stored document itself stays a reference to it.
file_update_session(st, session_id, updates, t) ==
    IF session_id \in DOMAIN st.research_sessions
    THEN LET doc == DictSet(DictUpdate(st.research_sessions[session_id], updates),
                            "updated_at", t)
             st1 == [st EXCEPT !.research_sessions =
                                   DictSet(st.research_sessions, session_id, doc)]
             sv == save_sessions_file(st1)
         IN [st |-> sv.st, raised |-> sv.raised]
    ELSE [st |-> st, raised |-> FALSE]

\* the search history and the saved research of every session are dropped
\* (mutation of file_delete_session)
file_delete_session_all(st, session_id) ==
    LET st1 == IF session_id \in DOMAIN st.research_sessions
               THEN save_sessions_file(
                       [st EXCEPT !.research_sessions =
                                      DictDel(st.research_sessions, session_id)])
               ELSE [st |-> st, raised |-> FALSE]
        st3 == [st1.st EXCEPT !.search_history = EmptyDict,
                              !.search_history_file = FileOf(EmptyDict),
                              !.saved_research = EmptyDict,
                              !.saved_research_file = FileOf(EmptyDict)]
    IN IF st1.raised THEN [st |-> st1.st, raised |-> TRUE]
       ELSE [st |-> st3, raised |-> FALSE]

file_delete_session(st, session_id) ==
    LET st1 == IF session_id \in DOMAIN st.research_sessions
               THEN save_sessions_file(
                       [st EXCEPT !.research_sessions =
                                      DictDel(st.research_sessions, session_id)])
               ELSE [st |-> st, raised |-> FALSE]
        st2 == IF session_id \in DOMAIN st1.st.search_history
               THEN LET h == DictDel(st1.st.search_history, session_id)
                    IN [st1.st EXCEPT !.search_history = h,
                                      !.search_history_file = FileOf(h)]
               ELSE st1.st
        st3 == IF session_id \in DOMAIN st2.saved_research
               THEN LET r == DictDel(st2.saved_research, session_id)
                    IN [st2 EXCEPT !.saved_research = r,
                                   !.saved_research_file = FileOf(r)]
               ELSE st2
    IN IF st1.raised THEN [st |-> st1.st, raised |-> TRUE]
       ELSE [st |-> st3, raised |-> FALSE]

file_add_search_history(st, session_id, entry) ==
    LET h == DictSet(st.search_history, session_id,
                     Append(DictGetList(st.search_history, session_id), entry))
    IN [st |-> [st EXCEPT !.search_history = h, !.search_history_file = FileOf(h)],
        raised |-> FALSE]

file_get_search_history(st, session_id) == DictGetList(st.search_history, session_id)

file_save_research(st, session_id, research_data) ==
    LET r == DictSet(st.saved_research, session_id,
                     Append(DictGetList(st.saved_research, session_id), research_data))
    IN [st |-> [st EXCEPT !.saved_research = r, !.saved_research_file = FileOf(r)],
        raised |-> FALSE]

file_get_saved_research(st, session_id) == DictGetList(st.saved_research, session_id)

file_delete_saved_research(st, session_id, query) ==
    IF session_id \in DOMAIN st.saved_research
    THEN LET r == DictSet(st.saved_research, session_id,
                          SeqFilterOut(st.saved_research[session_id], query))
         IN [st |-> [st EXCEPT !.saved_research = r, !.saved_research_file = FileOf(r)],
             raised |-> FALSE]
    ELSE [st |-> st, raised |-> FALSE]

\* ------------------------------------------ mongodb_service.py (document store)
\* A driver call raises when its number equals the fault index f (0: none).
RECURSIVE FirstIndex(_, _, _)
\* Position of the first document of the collection with this session_id, or 0.
FirstIndex(coll, session_id, i) ==
    IF i > Len(coll) THEN 0
    ELSE IF coll[i].session_id = session_id THEN i
    ELSE FirstIndex(coll, session_id, i + 1)

RECURSIVE FirstQueryIndex(_, _, _, _)
\* Position of the first document with this session_id and query, or 0.
FirstQueryIndex(coll, session_id, query, i) ==
    IF i > Len(coll) THEN 0
    ELSE IF coll[i].session_id = session_id /\ coll[i].query = query THEN i
    ELSE FirstQueryIndex(coll, session_id, query, i + 1)

\* collection without its i-th document
RemoveAt(coll, i) == SubSeq(coll, 1, i - 1) \o SubSeq(coll, i + 1, Len(coll))

RECURSIVE DeleteMany(_, _)
\* delete_many({"session_id": session_id})
DeleteMany(coll, session_id) ==
    IF coll = <<>> THEN <<>>
    ELSE IF Head(coll).session_id = session_id
         THEN DeleteMany(Tail(coll), session_id)
         ELSE <<Head(coll)>> \o DeleteMany(Tail(coll), session_id)

RECURSIVE FindAt(_, _, _)
\* the documents of a session whose timestamp is t, in natural order
FindAt(coll, session_id, t) ==
    IF coll = <<>> THEN <<>>
    ELSE IF Head(coll).session_id = session_id /\ Head(coll).timestamp = t
         THEN <<Head(coll)>> \o FindAt(Tail(coll), session_id, t)
         ELSE FindAt(Tail(coll), session_id, t)

RECURSIVE FindSorted(_, _, _)
\* find({"session_id": session_id}).sort("timestamp", -1), from timestamp t down
FindSorted(coll, session_id, t) ==
    IF t < 0 THEN <<>>
    ELSE FindAt(coll, session_id, t) \o FindSorted(coll, session_id, t - 1)

mongo_create_session(st, db, f, session_id, t) ==
    IF ~db \/ f = 1 THEN [st |-> st, raised |-> TRUE, ret |-> None]
    ELSE LET session == [session_id |-> session_id,
                         user_id |-> None,
                         created_at |-> t,
                         updated_at |-> t,
                         research_history |-> <<>>,
                         conversation_history |-> <<>>]
         IN [st |-> [st EXCEPT !.m_sessions = Append(st.m_sessions, session)],
             raised |-> FALSE, ret |-> session]

mongo_get_session(st, db, f, session_id) ==
    IF ~db THEN [raised |-> FALSE, ret |-> None]
    ELSE IF f = 1 THEN [raised |-> TRUE, ret |-> None]
    ELSE LET i == FirstIndex(st.m_sessions, session_id, 1)
         IN [raised |-> FALSE, ret |-> IF i = 0 THEN None ELSE st.m_sessions[i]]

\* updates["updated_at"] is set on the caller's dict before the driver call.
mongo_update_session(st, db, f, session_id, updates, t) ==
    IF ~db THEN [st |-> st, raised |-> FALSE, updates |-> updates]
    ELSE LET u == DictSet(updates, "updated_at", t)
             i == FirstIndex(st.m_sessions, session_id, 1)
         IN IF f = 1 THEN [st |-> st, raised |-> TRUE, updates |-> u]
            ELSE IF i = 0 THEN [st |-> st, raised |-> FALSE, updates |-> u]
            ELSE [st |-> [st EXCEPT !.m_sessions[i] = DictUpdate(st.m_sessions[i], u)],
                  raised |-> FALSE, updates |-> u]

\* three driver calls: delete_one, delete_many, delete_many
mongo_delete_session(st, db, f, session_id) ==
    IF ~db THEN [st |-> st, raised |-> FALSE]
    ELSE LET i == FirstIndex(st.m_sessions, session_id, 1)
             st1 == IF i = 0 THEN st
                    ELSE [st EXCEPT !.m_sessions = RemoveAt(st.m_sessions, i)]
             st2 == [st1 EXCEPT !.m_search_history =
                                    DeleteMany(st1.m_search_history, session_id)]
             st3 == [st2 EXCEPT !.m_saved_research =
                                    DeleteMany(st2.m_saved_research, session_id)]
         IN CASE f = 1 -> [st |-> st, raised |-> TRUE]
              [] f = 2 -> [st |-> st1, raised |-> TRUE]
              [] f = 3 -> [st |-> st2, raised |-> TRUE]
              [] OTHER -> [st |-> st3, raised |-> FALSE]

\* entry["session_id"] and entry["timestamp"] are set on the caller's dict.
mongo_add_search_history(st, db, f, session_id, entry, t) ==
    IF ~db THEN [st |-> st, raised |-> FALSE, entry |-> entry]
    ELSE LET e == DictSet(DictSet(entry, "session_id", session_id), "timestamp", t)
         IN IF f = 1 THEN [st |-> st, raised |-> TRUE, entry |-> e]
            ELSE [st |-> [st EXCEPT !.m_search_history = Append(st.m_search_history, e)],
                  raised |-> FALSE, entry |-> e]

mongo_get_search_history(st, db, f, session_id) ==
    IF ~db THEN [raised |-> FALSE, ret |-> <<>>]
    ELSE IF f = 1 THEN [raised |-> TRUE, ret |-> <<>>]
    ELSE [raised |-> FALSE, ret |-> FindSorted(st.m_search_history, session_id, MaxClock)]

mongo_save_research(st, db, f, session_id, research_data, t) ==
    IF ~db THEN [st |-> st, raised |-> FALSE, entry |-> research_data]
    ELSE LET e == DictSet(DictSet(research_data, "session_id", session_id), "timestamp", t)
         IN IF f = 1 THEN [st |-> st, raised |-> TRUE, entry |-> e]
            ELSE [st |-> [st EXCEPT !.m_saved_research = Append(st.m_saved_research, e)],
                  raised |-> FALSE, entry |-> e]

mongo_get_saved_research(st, db, f, session_id) ==
    IF ~db THEN [raised |-> FALSE, ret |-> <<>>]
    ELSE IF f = 1 THEN [raised |-> TRUE, ret |-> <<>>]
    ELSE [raised |-> FALSE, ret |-> FindSorted(st.m_saved_research, session_id, MaxClock)]

\* delete_one: only the first matching document goes.
mongo_delete_saved_research(st, db, f, session_id, query) ==
    IF ~db THEN [st |-> st, raised |-> FALSE]
    ELSE IF f = 1 THEN [st |-> st, raised |-> TRUE]
    ELSE LET i == FirstQueryIndex(st.m_saved_research, session_id, query, 1)
         IN [st |-> IF i = 0 THEN st
                    ELSE [st EXCEPT !.m_saved_research = RemoveAt(st.m_saved_research, i)],
             raised |-> FALSE]

\* ------------------------------------- dynamodb_service.py (key-value store)
\* sessions: one item per session_id; saved_research: one item per
\* (session_id, query), the key that _delete_saved_research names;
\* search_history: the items put, an item equal to a stored one replacing it.
ddb_create_session(st, f, session_id) ==
    IF f = 1 THEN [st |-> st, raised |-> TRUE, ret |-> None]
    ELSE LET item == [session_id |-> session_id]
         IN [st |-> [st EXCEPT !.d_sessions = DictSet(st.d_sessions, session_id, item)],
             raised |-> FALSE, ret |-> item]

ddb_get_session(st, f, session_id) ==
    IF f = 1 THEN [raised |-> TRUE, ret |-> None]
    ELSE [raised |-> FALSE, ret |-> DictGet(st.d_sessions, session_id)]

\* The serializer raises TypeError on the ObjectId of a MongoDB document held
\* in the payload; update_item creates the item when the key is new.
ddb_update_session(st, f, session_id, updates) ==
    IF f = 1 \/ ("mongodb" \in DOMAIN updates /\ ~IsNone(updates["mongodb"]))
    THEN [st |-> st, raised |-> TRUE]
    ELSE LET old == IF session_id \in DOMAIN st.d_sessions
                    THEN st.d_sessions[session_id]
                    ELSE [session_id |-> session_id]
         IN [st |-> [st EXCEPT !.d_sessions =
                                   DictSet(st.d_sessions, session_id, DictUpdate(old, updates))],
             raised |-> FALSE]

\* only the session item is deleted
ddb_delete_session(st, f, session_id) ==
    IF f = 1 THEN [st |-> st, raised |-> TRUE]
    ELSE [st |-> [st EXCEPT !.d_sessions = DictDel(st.d_sessions, session_id)],
          raised |-> FALSE]

SeqContains(s, x) == \E i \in 1..Len(s) : s[i] = x

ddb_add_search_history(st, f, session_id, entry) ==
    IF f = 1 THEN [st |-> st, raised |-> TRUE]
    ELSE LET item == DictUpdate([session_id |-> session_id], entry)
         IN [st |-> IF SeqContains(st.d_search_history, item) THEN st
                    ELSE [st EXCEPT !.d_search_history = Append(st.d_search_history, item)],
             raised |-> FALSE]

RECURSIVE ItemsOf(_, _)
\* the items whose session_id is the queried one
ItemsOf(table, session_id) ==
    IF table = <<>> THEN <<>>
    ELSE IF Head(table).session_id = session_id
         THEN <<Head(table)>> \o ItemsOf(Tail(table), session_id)
         ELSE ItemsOf(Tail(table), session_id)

ddb_get_search_history(st, f, session_id) ==
    IF f = 1 THEN [raised |-> TRUE, ret |-> <<>>]
    ELSE [raised |-> FALSE, ret |-> ItemsOf(st.d_search_history, session_id)]

ddb_save_research(st, f, session_id, research_data) ==
    IF f = 1 THEN [st |-> st, raised |-> TRUE]
    ELSE LET item == DictUpdate([session_id |-> session_id], research_data)
         IN [st |-> [st EXCEPT !.d_saved_research =
                                   DictSet(st.d_saved_research,
                                           <<session_id, research_data.query>>, item)],
             raised |-> FALSE]

RECURSIVE ItemsByQuery(_, _, _)
\* the items of a session in the order of their sort key (query)
ItemsByQuery(table, session_id, i) ==
    IF i > Len(QueryOrder) THEN <<>>
    ELSE (IF <<session_id, QueryOrder[i]>> \in DOMAIN table
          THEN <<table[<<session_id, QueryOrder[i]>>]>> ELSE <<>>)
         \o ItemsByQuery(table, session_id, i + 1)

ddb_get_saved_research(st, f, session_id) ==
    IF f = 1 THEN [raised |-> TRUE, ret |-> <<>>]
    ELSE [raised |-> FALSE, ret |-> ItemsByQuery(st.d_saved_research, session_id, 1)]

ddb_delete_saved_research(st, f, session_id, query) ==
    IF f = 1 THEN [st |-> st, raised |-> TRUE]
    ELSE [st |-> [st EXCEPT !.d_saved_research =
                              DictDel(st.d_saved_research, <<session_id, query>>)],
          raised |-> FALSE]

\* --------------------------------------- storage_manager.py (StorageManager)
\* f.mongo and f.dynamo say which driver call of the backend raises (0: none).
\* Every operation returns the store after it, the backends it invoked
\* (calls), the backends whose exception it caught (errors), and whether an
\* exception left the facade (raised).
NoFault == [mongo |-> 0, dynamo |-> 0]

\* the calls and errors of the two wrapped backends
Invoked(fileCalled) ==
    (IF mongo_service THEN {"mongodb"} ELSE {})
    \cup (IF dynamo_service THEN {"dynamodb"} ELSE {})
    \cup (IF fileCalled THEN {"file"} ELSE {})

Caught(m, d) ==
    (IF mongo_service /\ m.raised THEN {"mongodb"} ELSE {})
    \cup (IF dynamo_service /\ d.raised THEN {"dynamodb"} ELSE {})

\* results[key] = ret unless the backend is absent or raised
Results(m, d) ==
    (IF mongo_service /\ ~m.raised THEN ("mongodb" :> m.ret) ELSE EmptyDict)
    @@ (IF dynamo_service /\ ~d.raised THEN ("dynamodb" :> d.ret) ELSE EmptyDict)

\* the guard of the file call of the mutating operations other than create
FileWrites == ~(mongo_service \/ dynamo_service) /\ file_service

SM_create_session(st, f, session_id, t) ==
    LET m == IF mongo_service
             THEN mongo_create_session(st, database, f.mongo, session_id, t)
             ELSE [st |-> st, raised |-> FALSE, ret |-> None]
        d == IF dynamo_service
             THEN ddb_create_session(m.st, f.dynamo, session_id)
             ELSE [st |-> m.st, raised |-> FALSE, ret |-> None]
        results == Results(m, d)
        useFile == DOMAIN results = {} /\ file_service
        fl == IF useFile THEN file_create_session(d.st, session_id, t)
              ELSE [st |-> d.st, raised |-> FALSE, ret |-> None]
    IN [st |-> fl.st,
        results |-> IF useFile /\ ~fl.raised THEN ("file" :> fl.ret) ELSE results,
        calls |-> Invoked(useFile), errors |-> Caught(m, d), raised |-> fl.raised]

SM_get_session(st, f, session_id) ==
    LET m == IF mongo_service
             THEN mongo_get_session(st, database, f.mongo, session_id)
             ELSE [raised |-> FALSE, ret |-> None]
        d == IF dynamo_service
             THEN ddb_get_session(st, f.dynamo, session_id)
             ELSE [raised |-> FALSE, ret |-> None]
        results == Results(m, d)
        useFile == DOMAIN results = {} /\ file_service
    IN [results |-> IF useFile THEN ("file" :> file_get_session(st, session_id))
                    ELSE results,
        calls |-> Invoked(useFile), errors |-> Caught(m, d), raised |-> FALSE]

SM_update_session(st, f, session_id, updates, t) ==
    LET m == IF mongo_service
             THEN mongo_update_session(st, database, f.mongo, session_id, updates, t)
             ELSE [st |-> st, raised |-> FALSE, updates |-> updates]
        d == IF dynamo_service
             THEN ddb_update_session(m.st, f.dynamo, session_id, m.updates)
             ELSE [st |-> m.st, raised |-> FALSE]
        fl == IF FileWrites THEN file_update_session(d.st, session_id, m.updates, t)
              ELSE [st |-> d.st, raised |-> FALSE]
    IN [st |-> fl.st, payload |-> m.updates,
        calls |-> Invoked(FileWrites), errors |-> Caught(m, d), raised |-> fl.raised]

SM_delete_session(st, f, session_id) ==
    LET m == IF mongo_service
             THEN mongo_delete_session(st, database, f.mongo, session_id)
             ELSE [st |-> st, raised |-> FALSE]
        d == IF dynamo_service
             THEN ddb_delete_session(m.st, f.dynamo, session_id)
             ELSE [st |-> m.st, raised |-> FALSE]
        fl == IF FileWrites THEN file_delete_session(d.st, session_id)
              ELSE [st |-> d.st, raised |-> FALSE]
    IN [st |-> fl.st,
        calls |-> Invoked(FileWrites), errors |-> Caught(m, d), raised |-> fl.raised]

SM_add_search_history(st, f, session_id, entry, t) ==
    LET m == IF mongo_service
             THEN mongo_add_search_history(st, database, f.mongo, session_id, entry, t)
             ELSE [st |-> st, raised |-> FALSE, entry |-> entry]
        d == IF dynamo_service
             THEN ddb_add_search_history(m.st, f.dynamo, session_id, m.entry)
             ELSE [st |-> m.st, raised |-> FALSE]
        fl == IF FileWrites THEN file_add_search_history(d.st, session_id, m.entry)
              ELSE [st |-> d.st, raised |-> FALSE]
    IN [st |-> fl.st, payload |-> m.entry,
        calls |-> Invoked(FileWrites), errors |-> Caught(m, d), raised |-> fl.raised]

SM_get_search_history(st, f, session_id) ==
    LET m == IF mongo_service
             THEN mongo_get_search_history(st, database, f.mongo, session_id)
             ELSE [raised |-> FALSE, ret |-> <<>>]
        d == IF dynamo_service
             THEN ddb_get_search_history(st, f.dynamo, session_id)
             ELSE [raised |-> FALSE, ret |-> <<>>]
        results == Results(m, d)
        useFile == DOMAIN results = {} /\ file_service
    IN [results |-> IF useFile THEN ("file" :> file_get_search_history(st, session_id))
                    ELSE results,
        calls |-> Invoked(useFile), errors |-> Caught(m, d), raised |-> FALSE]

SM_save_research(st, f, session_id, research_data, t) ==
    LET m == IF mongo_service
             THEN mongo_save_research(st, database, f.mongo, session_id, research_data, t)
             ELSE [st |-> st, raised |-> FALSE, entry |-> research_data]
        d == IF dynamo_service
             THEN ddb_save_research(m.st, f.dynamo, session_id, m.entry)
             ELSE [st |-> m.st, raised |-> FALSE]
        fl == IF FileWrites THEN file_save_research(d.st, session_id, m.entry)
              ELSE [st |-> d.st, raised |-> FALSE]
    IN [st |-> fl.st, payload |-> m.entry,
        calls |-> Invoked(FileWrites), errors |-> Caught(m, d), raised |-> fl.raised]

SM_get_saved_research(st, f, session_id) ==
    LET m == IF mongo_service
             THEN mongo_get_saved_research(st, database, f.mongo, session_id)
             ELSE [raised |-> FALSE, ret |-> <<>>]
        d == IF dynamo_service
             THEN ddb_get_saved_research(st, f.dynamo, session_id)
             ELSE [raised |-> FALSE, ret |-> <<>>]
        results == Results(m, d)
        useFile == DOMAIN results = {} /\ file_service
    IN [results |-> IF useFile THEN ("file" :> file_get_saved_research(st, session_id))
                    ELSE results,
        calls |-> Invoked(useFile), errors |-> Caught(m, d), raised |-> FALSE]

SM_delete_saved_research(st, f, session_id, query) ==
    LET m == IF mongo_service
             THEN mongo_delete_saved_research(st, database, f.mongo, session_id, query)
             ELSE [st |-> st, raised |-> FALSE]
        d == IF dynamo_service
             THEN ddb_delete_saved_research(m.st, f.dynamo, session_id, query)
             ELSE [st |-> m.st, raised |-> FALSE]
        fl == IF FileWrites THEN file_delete_saved_research(d.st, session_id, query)
              ELSE [st |-> d.st, raised |-> FALSE]
    IN [st |-> fl.st,
        calls |-> Invoked(FileWrites), errors |-> Caught(m, d), raised |-> fl.raised]

\* ------------------------------------------------------------ requests
\* the session as a caller reads it back: the document store's record if there
\* is one, otherwise the key-value store's, otherwise the file store's
Preferred(results) ==
    PyOr(PyOr(DictGet(results, "mongodb"), DictGet(results, "dynamodb")),
         DictGet(results, "file"))

ReadBack(session_id) == Preferred(SM_get_session(Store, NoFault, session_id).results)

\* session.get(key, [])
Hist(session, key) ==
    IF ~IsNone(session) /\ key \in DOMAIN session THEN session[key] ELSE <<>>

\* some backend stores a record under this id
Held(session_id) ==
    \/ session_id \in DOMAIN research_sessions
    \/ FirstIndex(m_sessions, session_id, 1) # 0
    \/ session_id \in DOMAIN d_sessions

\* what was stored for the session when a request began
NoBefore == [held |-> FALSE, research_history |-> <<>>, conversation_history |-> <<>>]
Before(session_id) ==
    [held |-> Held(session_id),
     research_history |-> Hist(ReadBack(session_id), "research_history"),
     conversation_history |-> Hist(ReadBack(session_id), "conversation_history")]

\* the record of a request: the handler, its arguments, the HTTP status, the
\* mappings its facade reads and create returned, the number of model calls,
\* for each facade write in order its name, calls, errors and raised, and for
\* a research or chat request the histories stored when it began.
Outcome(op, sid, arg, status, sessions, created, lists, llm, writes, before) ==
    [op |-> op, sid |-> sid, arg |-> arg, status |-> status,
     sessions |-> sessions, created |-> created, lists |-> lists,
     llm_calls |-> llm, writes |-> writes, before |-> before,
     failed |-> "none", found |-> 0]

\* the outcome of a research request: the stage that raised ("none": no stage)
\* and the number of results the search returned
Pipeline(o, fail, k) == [o EXCEPT !.failed = fail, !.found = IF fail = "search" THEN 0 ELSE k]

Write(name, r) ==
    [name |-> name, calls |-> r.calls, errors |-> r.errors, raised |-> r.raised]

Commit(st) ==
    /\ research_sessions' = st.research_sessions
    /\ search_history' = st.search_history
    /\ saved_research' = st.saved_research
    /\ sessions_file' = st.sessions_file
    /\ search_history_file' = st.search_history_file
    /\ saved_research_file' = st.saved_research_file
    /\ m_sessions' = st.m_sessions
    /\ m_search_history' = st.m_search_history
    /\ m_saved_research' = st.m_saved_research
    /\ d_sessions' = st.d_sessions
    /\ d_search_history' = st.d_search_history
    /\ d_saved_research' = st.d_saved_research

\* the bound on the size of every collection
WithinBounds(st) ==
    /\ Len(st.m_sessions) <= MaxMongoDocs
    /\ Len(st.m_search_history) <= MaxRecords
    /\ Len(st.m_saved_research) <= MaxRecords
    /\ Len(st.d_search_history) <= MaxRecords
    /\ \A s \in DOMAIN st.search_history : Len(st.search_history[s]) <= MaxRecords
    /\ \A s \in DOMAIN st.saved_research : Len(st.saved_research[s]) <= MaxRecords

\* the mapping of get_session as the handlers pass it on: each backend key
\* holds None or the document that backend returned
Nested(results) ==
    [k \in DOMAIN results |-> IF IsNone(results[k]) THEN None ELSE Ref]

\* StorageManager.__init__ and the module state of the adapters before any
\* request: the document-store adapter imported or not, the key-value adapter
\* constructed or not, the USE_MONGODB flag
Deployed ==
    /\ mongo_service \in BOOLEAN
    /\ dynamo_service \in BOOLEAN
    /\ use_mongodb \in BOOLEAN
    /\ use_mongodb => mongo_service
    /\ file_service = (~use_mongodb /\ ~dynamo_service)
    /\ database = FALSE
    /\ initialized = FALSE
    /\ research_sessions = EmptyDict
    /\ search_history = EmptyDict
    /\ saved_research = EmptyDict
    /\ sessions_file = FileOf(EmptyDict)
    /\ search_history_file = FileOf(EmptyDict)
    /\ saved_research_file = FileOf(EmptyDict)
    /\ m_sessions = <<>>
    /\ m_search_history = <<>>
    /\ m_saved_research = <<>>
    /\ d_sessions = EmptyDict
    /\ d_search_history = <<>>
    /\ d_saved_research = EmptyDict
    /\ now = 0
    /\ live = {}

Constructed ==
    /\ Deployed
    /\ last = Outcome("start", "", "", 0, EmptyDict, EmptyDict, EmptyDict, 0, <<>>, NoBefore)

\* the deployments with at most one of the two remote adapters
Init == Constructed /\ ~(mongo_service /\ dynamo_service)

\* the deployment with both remote adapters and USE_MONGODB set
InitBoth == Constructed /\ mongo_service /\ dynamo_service /\ use_mongodb

\* lifespan: StorageManager.initialize
initialize ==
    /\ ~initialized
    /\ initialized' = TRUE
    /\ \E connected \in BOOLEAN :
          /\ connected => mongo_service
          /\ database' = connected
          /\ use_mongodb' = (use_mongodb /\ (mongo_service => connected))
    /\ last' = Outcome("initialize", "", "", 0, EmptyDict, EmptyDict, EmptyDict, 0, <<>>, NoBefore)
    /\ UNCHANGED <<mongo_service, dynamo_service, file_service,
                   filevars, mongovars, dynamovars, now, live>>

\* the clock of datetime.now() advances
Tick ==
    /\ now < MaxClock
    /\ now' = now + 1
    /\ last' = Outcome("tick", "", "", 0, EmptyDict, EmptyDict, EmptyDict, 0, <<>>, NoBefore)
    /\ UNCHANGED <<cfgvars, filevars, mongovars, dynamovars, live>>

\* POST /session
create_or_get_session(session_id, f1, f2) ==
    /\ initialized
    /\ LET g == SM_get_session(Store, f1, session_id)
           session == PyOr(DictGet(g.results, "mongodb"), DictGet(g.results, "file"))
           c == SM_create_session(Store, f2, session_id, now)
           created_session == PyOr(DictGet(c.results, "mongodb"), DictGet(c.results, "file"))
       IN IF Truthy(session)
          THEN /\ last' = Outcome("create_or_get_session", session_id, "", 200,
                                  g.results, EmptyDict, EmptyDict, 0, <<>>, NoBefore)
               /\ UNCHANGED <<filevars, mongovars, dynamovars, live>>
          ELSE /\ WithinBounds(c.st)
               /\ Commit(c.st)
               /\ live' = IF c.raised THEN live ELSE live \cup {session_id}
               /\ last' = Outcome("create_or_get_session", session_id, "",
                                  IF c.raised \/ IsNone(created_session) THEN 500 ELSE 200,
                                  g.results, c.results, EmptyDict, 0,
                                  <<Write("create_session", c)>>, NoBefore)
    /\ UNCHANGED <<cfgvars, now>>

\* the results of a search that returned k snippets
SearchResults(k) == [i \in 1..k |-> [snippet |-> i]]

\* the number of model calls made when the request fails at this stage
\* ("none": all six are made)
RECURSIVE StageIndex(_, _)
StageIndex(stage, i) ==
    IF i > Len(Stages) THEN Len(Stages)
    ELSE IF Stages[i] = stage THEN i
    ELSE StageIndex(stage, i + 1)

ModelCalls(fail) == StageIndex(fail, 1) - 1

\* a model call that raises does not stop the request (mutation of Aborts)
AbortsOnSearch(fail, k) == fail = "search" \/ k = 0

\* an empty search result does not stop the request (mutation of Aborts)
AbortsOnRaise(fail, k) == fail # "none"

\* a stage that raises, or a search that found nothing (HTTPException 404),
\* leaves the try block before the storage calls are reached
Aborts(fail, k) == fail # "none" \/ k = 0

\* POST /research: fail names the stage whose call raises ("none": no stage),
\* num is request.num_results and k the number of results the search returned
conduct_research(session_id, topic, num, k, fail, f1, f2, f3) ==
    /\ initialized
    /\ k <= num
    /\ LET results == SearchResults(k)
           research_entry == [timestamp |-> now, topic |-> topic, results |-> results]
           g == SM_get_session(Store, f1, session_id)
           session == ("research_history" :> <<research_entry>>)
                      @@ ("current_topic" :> topic)
                      @@ ("sources" :> results)
                      @@ Nested(g.results)
           u == IF DOMAIN g.results # {}
                THEN SM_update_session(Store, f2, session_id, session, now)
                ELSE [st |-> Store, raised |-> FALSE]
           a == SM_add_search_history(u.st, f3, session_id,
                    [query |-> topic, timestamp |-> now, num_results |-> num], now)
           updates == IF DOMAIN g.results # {}
                      THEN <<Write("update_session", u)>> ELSE <<>>
       IN IF Aborts(fail, k)
          THEN /\ last' = Pipeline(Outcome("conduct_research", session_id, "", 500,
                                  EmptyDict, EmptyDict, EmptyDict,
                                  IF fail = "none" THEN 0 ELSE ModelCalls(fail), <<>>, NoBefore), fail, k)
               /\ UNCHANGED <<filevars, mongovars, dynamovars>>
          ELSE IF u.raised
          THEN /\ WithinBounds(u.st)
               /\ Commit(u.st)
               /\ last' = Pipeline(Outcome("conduct_research", session_id, topic, 500,
                                  EmptyDict, EmptyDict, EmptyDict,
                                  Len(Stages) - 1, updates, Before(session_id)), fail, k)
          ELSE /\ WithinBounds(a.st)
               /\ Commit(a.st)
               /\ last' = Pipeline(Outcome("conduct_research", session_id, topic,
                                  IF a.raised THEN 500 ELSE 200,
                                  EmptyDict, EmptyDict, EmptyDict, Len(Stages) - 1,
                                  updates \o <<Write("add_search_history", a)>>, Before(session_id)), fail, k)
    /\ UNCHANGED <<cfgvars, now, live>>

\* POST /chat: one model call, which raises when llm_fails
chat_with_aria(session_id, message, response, llm_fails, f1, f2) ==
    /\ initialized
    /\ LET g == SM_get_session(Store, f1, session_id)
           conversation_entry == [timestamp |-> now, user |-> message,
                                  assistant |-> response]
           session == ("conversation_history" :> <<conversation_entry>>)
                      @@ Nested(g.results)
           u == SM_update_session(Store, f2, session_id, session, now)
       IN IF DOMAIN g.results = {}
          THEN /\ last' = Outcome("chat_with_aria", session_id, message, 500,
                                  EmptyDict, EmptyDict, EmptyDict, 0, <<>>, Before(session_id))
               /\ UNCHANGED <<filevars, mongovars, dynamovars>>
          ELSE IF llm_fails
          THEN /\ last' = Outcome("chat_with_aria", session_id, message, 500,
                                  g.results, EmptyDict, EmptyDict, 1, <<>>, Before(session_id))
               /\ UNCHANGED <<filevars, mongovars, dynamovars>>
          ELSE /\ WithinBounds(u.st)
               /\ Commit(u.st)
               /\ last' = Outcome("chat_with_aria", session_id, message,
                                  IF u.raised THEN 500 ELSE 200,
                                  EmptyDict, EmptyDict, EmptyDict, 1,
                                  <<Write("update_session", u)>>, Before(session_id))
    /\ UNCHANGED <<cfgvars, now, live>>

\* GET /search-history/{session_id}
get_search_history(session_id, f) ==
    /\ initialized
    /\ LET r == SM_get_search_history(Store, f, session_id)
       IN last' = Outcome("get_search_history", session_id, "", 200,
                          EmptyDict, EmptyDict, r.results, 0, <<>>, NoBefore)
    /\ UNCHANGED <<cfgvars, filevars, mongovars, dynamovars, now, live>>

\* POST /save-research
save_research_section(session_id, query, section_name, f) ==
    /\ initialized
    /\ LET r == SM_save_research(Store, f, session_id,
                    [query |-> query, section_name |-> section_name,
                     content |-> "text", saved_at |-> now], now)
       IN /\ WithinBounds(r.st)
          /\ Commit(r.st)
          /\ last' = Outcome("save_research_section", session_id, query,
                             IF r.raised THEN 500 ELSE 200,
                             EmptyDict, EmptyDict, EmptyDict, 0,
                             <<Write("save_research", r)>>, NoBefore)
    /\ UNCHANGED <<cfgvars, now, live>>

\* GET /saved-research/{session_id}
get_saved_research(session_id, f) ==
    /\ initialized
    /\ LET r == SM_get_saved_research(Store, f, session_id)
       IN last' = Outcome("get_saved_research", session_id, "", 200,
                          EmptyDict, EmptyDict, r.results, 0, <<>>, NoBefore)
    /\ UNCHANGED <<cfgvars, filevars, mongovars, dynamovars, now, live>>

\* DELETE /saved-research/{session_id}/{query}
delete_saved_research(session_id, query, f) ==
    /\ initialized
    /\ LET r == SM_delete_saved_research(Store, f, session_id, query)
       IN /\ Commit(r.st)
          /\ last' = Outcome("delete_saved_research", session_id, query,
                             IF r.raised THEN 500 ELSE 200,
                             EmptyDict, EmptyDict, EmptyDict, 0,
                             <<Write("delete_saved_research", r)>>, NoBefore)
    /\ UNCHANGED <<cfgvars, now, live>>

\* DELETE /session/{session_id}
delete_session(session_id, f) ==
    /\ initialized
    /\ LET r == SM_delete_session(Store, f, session_id)
       IN /\ Commit(r.st)
          /\ last' = Outcome("delete_session", session_id, "",
                             IF r.raised THEN 500 ELSE 200,
                             EmptyDict, EmptyDict, EmptyDict, 0,
                             <<Write("delete_session", r)>>, NoBefore)
    /\ live' = live \ {session_id}
    /\ UNCHANGED <<cfgvars, now>>

\* the faults that can happen: a backend that is absent, or a document store
\* that is not connected, makes no driver call
FaultsNow == [mongo : IF mongo_service /\ database THEN 0..1 ELSE {0},
              dynamo : IF dynamo_service THEN 0..1 ELSE {0}]
DeleteFaultsNow == [mongo : IF mongo_service /\ database THEN 0..3 ELSE {0},
                    dynamo : IF dynamo_service THEN 0..1 ELSE {0}]
StageSet == {Stages[i] : i \in 1..Len(Stages)}
\* the stages whose call can raise: the search and every model call
FailStages == StageSet

\* A backend that fails during a request fails for every call of that request,
\* except that the read and the writes of a request may differ (fr, fw).
Next ==
    \/ initialize
    \/ \E s \in Sids, fr \in FaultsNow, fw \in FaultsNow : create_or_get_session(s, fr, fw)
    \/ \E s \in Sids, t \in ResearchTopics, fail \in FailStages :
          conduct_research(s, t, 2, 1, fail, NoFault, NoFault, NoFault)
    \/ \E s \in Sids, t \in ResearchTopics :
          conduct_research(s, t, 2, 0, "none", NoFault, NoFault, NoFault)
    \/ \E s \in Sids, t \in ResearchTopics, f \in FaultsNow :
          conduct_research(s, t, 2, 1, "none", f, f, f)
    \/ \E s \in Sids, m \in Messages, r \in Responses, f \in FaultsNow :
          chat_with_aria(s, m, r, TRUE, f, NoFault)
    \/ \E s \in Sids, m \in Messages, r \in Responses, f \in FaultsNow :
          chat_with_aria(s, m, r, FALSE, f, f)
    \/ \E s \in Sids, f \in FaultsNow : get_search_history(s, f)
    \/ \E s \in Sids, f \in FaultsNow : get_saved_research(s, f)
    \/ \E s \in Sids, f \in DeleteFaultsNow : delete_session(s, f)

Spec == Init /\ [][Next]_vars

SpecBoth == InitBoth /\ [][Next]_vars

\* the saved-research endpoints, with the clock of datetime.now() advancing
NextSaved ==
    \/ initialize
    \/ Tick
    \/ \E s \in Sids : create_or_get_session(s, NoFault, NoFault)
    \/ \E s \in Sids, q \in ResearchTopics, n \in Sections, f \in FaultsNow :
          save_research_section(s, q, n, f)
    \/ \E s \in Sids, f \in FaultsNow : get_saved_research(s, f)
    \/ \E s \in Sids, q \in ResearchTopics, f \in FaultsNow : delete_saved_research(s, q, f)
    \/ \E s \in Sids, f \in DeleteFaultsNow : delete_session(s, f)

SpecSaved == Init /\ [][NextSaved]_vars

\* ---------------------------------------- saved research, file-only
\* the file-only deployment, with two sessions saving under two queries
TwoSids == {"s1", "s2"}

InitFile == Constructed /\ ~mongo_service /\ ~dynamo_service /\ ~use_mongodb

NextFileSaved ==
    \/ initialize
    \/ \E s \in TwoSids, q \in Topics, n \in Sections :
          save_research_section(s, q, n, NoFault)
    \/ \E s \in TwoSids : get_saved_research(s, NoFault)
    \/ \E s \in TwoSids, q \in Topics : delete_saved_research(s, q, NoFault)

SpecFileSaved == InitFile /\ [][NextFileSaved]_vars

\* ---------------------------------------- session deletion, file-only
\* the file-only deployment, with two sessions that are created, researched,
\* saved under and deleted
NextFileDelete ==
    \/ initialize
    \/ \E s \in TwoSids : create_or_get_session(s, NoFault, NoFault)
    \/ \E s \in TwoSids, t \in ResearchTopics :
          conduct_research(s, t, 2, 1, "none", NoFault, NoFault, NoFault)
    \/ \E s \in TwoSids, q \in ResearchTopics :
          save_research_section(s, q, "summary", NoFault)
    \/ \E s \in TwoSids, q \in ResearchTopics : delete_saved_research(s, q, NoFault)
    \/ \E s \in TwoSids : delete_session(s, NoFault)

SpecFileDelete == InitFile /\ [][NextFileDelete]_vars

\* ------------------------------------------------- chat message list
\* request.history entries: a role and a content ("" for a missing or empty one)
HistoryRoles == {"user", "ai", "system"}
HistoryContents == {"", "hello", "other"}
HistoryEntries == [role : HistoryRoles, content : HistoryContents]
Histories == UNION {[1..n -> HistoryEntries] : n \in 0..MaxHistory}
ChatInputs == {"hello", "other"}

\* a message sent to the model; context tells that the content is the request
\* message wrapped in the context derived from the session
Message(role, content, context) == [role |-> role, content |-> content, context |-> context]
SystemPrompt == Message("system", "prompt", FALSE)

\* for msg in request.history: keep "user" and "ai" entries with a content
RECURSIVE ReplayHistory(_, _, _)
ReplayHistory(messages, history, i) ==
    IF i > Len(history) THEN messages
    ELSE LET msg == history[i]
             kept == msg.role \in {"user", "ai"} /\ msg.content # ""
         IN ReplayHistory(
                IF kept
                THEN Append(messages, Message(IF msg.role = "ai" THEN "assistant" ELSE "user",
                                              msg.content, FALSE))
                ELSE messages,
                history, i + 1)

\* the new message is appended whatever the replayed history ends with
\* (mutation of chat_messages)
chat_messages_always_append(history, message) ==
    IF Len(history) > 0
    THEN Append(ReplayHistory(<<SystemPrompt>>, history, 1), Message("user", message, FALSE))
    ELSE <<SystemPrompt, Message("user", message, TRUE)>>

\* the message list chat_with_aria sends to the model
chat_messages(history, message) ==
    IF Len(history) > 0
    THEN LET messages == ReplayHistory(<<SystemPrompt>>, history, 1)
             tail == messages[Len(messages)]
         IN IF ~(tail.role = "user" /\ tail.content = message)
            THEN Append(messages, Message("user", message, FALSE))
            ELSE messages
    ELSE <<SystemPrompt, Message("user", message, TRUE)>>

\* a chat request arrives with its history and message
InitMessages ==
    /\ Deployed
    /\ ~mongo_service /\ ~dynamo_service
    /\ \E history \in Histories, message \in ChatInputs :
          last = [op |-> "chat_request", history |-> history, message |-> message]

\* the handler builds the message list of the request
BuildMessages ==
    /\ last.op = "chat_request"
    /\ last' = [op |-> "chat_messages", history |-> last.history, message |-> last.message,
                messages |-> chat_messages(last.history, last.message)]
    /\ UNCHANGED <<cfgvars, filevars, mongovars, dynamovars, now, live>>

SpecMessages == InitMessages /\ [][BuildMessages]_vars

\* ------------------------------------------------- model-call primitive
\* A text is a sequence of characters; space and newline are whitespace.
Chars == {" ", "\n", "a"}
Whitespace == {" ", "\n"}
Contents == UNION {[1..n -> Chars] : n \in 0..MaxContent}

\* the string "No response generated.", which no content over Chars equals
NoResponse == <<"No response generated.">>

\* a content that is a text (a content is None or a text)
Text(c) == [text |-> c]

\* what openai.chat.completions.create does: it raises, or returns a response
\* with no choice or one choice, whose message is None or has a content that
\* is None or a text
ApiReplies ==
    {[raises |-> TRUE, choices |-> <<>>]}
    \cup {[raises |-> FALSE, choices |-> <<>>]}
    \cup {[raises |-> FALSE, choices |-> <<[message |-> None]>>]}
    \cup {[raises |-> FALSE, choices |-> <<[message |-> [content |-> None]]>>]}
    \cup {[raises |-> FALSE, choices |-> <<[message |-> [content |-> Text(c)]]>>] : c \in Contents}

RECURSIVE LStrip(_)
LStrip(text) ==
    IF text # <<>> /\ Head(text) \in Whitespace THEN LStrip(Tail(text)) ELSE text

RECURSIVE RStrip(_)
RStrip(text) ==
    IF text # <<>> /\ text[Len(text)] \in Whitespace
    THEN RStrip(SubSeq(text, 1, Len(text) - 1)) ELSE text

\* str.strip()
Strip(text) == RStrip(LStrip(text))

\* response.choices and response.choices[0].message and ....content
HasContent(reply) ==
    /\ reply.choices # <<>>
    /\ ~IsNone(reply.choices[1].message)
    /\ ~IsNone(reply.choices[1].message.content)
    /\ reply.choices[1].message.content.text # <<>>

\* a failed call is made a second time before the error is reported
\* (mutation of generate_llm_response)
generate_llm_response_retry(reply) ==
    IF reply.raises THEN [raised |-> TRUE, ret |-> <<>>, calls |-> 2]
    ELSE IF HasContent(reply)
    THEN [raised |-> FALSE, ret |-> Strip(reply.choices[1].message.content.text), calls |-> 1]
    ELSE [raised |-> FALSE, ret |-> NoResponse, calls |-> 1]

\* generate_llm_response: one call of the API, whose outcome is reply; raised
\* is the HTTPException(500) and calls the number of API calls made
generate_llm_response(reply) ==
    IF reply.raises THEN [raised |-> TRUE, ret |-> <<>>, calls |-> 1]
    ELSE IF HasContent(reply)
    THEN [raised |-> FALSE, ret |-> Strip(reply.choices[1].message.content.text), calls |-> 1]
    ELSE [raised |-> FALSE, ret |-> NoResponse, calls |-> 1]

\* a model call is about to be made, with the reply the API will give
InitLlm ==
    /\ Deployed
    /\ ~mongo_service /\ ~dynamo_service
    /\ \E reply \in ApiReplies : last = [op |-> "llm_request", reply |-> reply]

CallLlm ==
    /\ last.op = "llm_request"
    /\ last' = [op |-> "generate_llm_response", reply |-> last.reply,
                result |-> generate_llm_response(last.reply)]
    /\ UNCHANGED <<cfgvars, filevars, mongovars, dynamovars, now, live>>

SpecLlm == InitLlm /\ [][CallLlm]_vars

\* ------------------------------------------------- suggestion parser
\* A model reply is a sequence of tokens, each standing for a fixed string:
\* " " and "\n"; "-" a bullet; "short" 5 and "long" 21 characters of plain
\* text, neither beginning nor ending with a character that strip() removes;
\* "Q" the marker "**Research Question 1:**"; "R" the string "**Rationale".
Tokens == {" ", "\n", "-", "short", "long", "Q", "R"}

TokLen(t) ==
    CASE t = "short" -> 5
      [] t = "long" -> 21
      [] t = "Q" -> 24
      [] t = "R" -> 11
      [] OTHER -> 1

\* the pieces replies are made of, and the replies of up to MaxSegments pieces
Segments ==
    {<<"Q", " ", "long">>, <<"Q", "\n">>, <<"\n", "R", "short">>, <<"\n">>,
     <<"long">>, <<"-", " ", "long", "\n">>, <<"short", "\n">>, <<" ", "Q">>,
     <<"Q", " ", "long", "\n", "R", "short", "\n">>}

RECURSIVE Replies(_)
Replies(n) ==
    IF n = 0 THEN {<<>>}
    ELSE Replies(n - 1) \cup {r \o g : r \in Replies(n - 1), g \in Segments}

\* a returned suggestion: tokens, with cutl and cutr characters removed from
\* the first and the last token
Item(tokens, cutl, cutr) == [tokens |-> tokens, cutl |-> cutl, cutr |-> cutr]

RECURSIVE SumLen(_)
SumLen(tokens) == IF tokens = <<>> THEN 0 ELSE TokLen(Head(tokens)) + SumLen(Tail(tokens))

\* len(s)
ItemLen(item) == SumLen(item.tokens) - item.cutl - item.cutr

RECURSIVE NextMarker(_, _)
\* position of the first "Q" at or after i, or 0
NextMarker(text, i) ==
    IF i > Len(text) THEN 0
    ELSE IF text[i] = "Q" THEN i
    ELSE NextMarker(text, i + 1)

RECURSIVE SkipSpace(_, _)
\* \s* taken greedily: the first position at or after i that is no whitespace
SkipSpace(text, i) ==
    IF i <= Len(text) /\ text[i] \in Whitespace THEN SkipSpace(text, i + 1) ELSE i

\* (?=\n\*\*Rationale|$) at position j: "\n**Rationale" follows, or the text
\* ends here, or only its final newline follows
LookAhead(text, j) ==
    \/ j > Len(text)
    \/ j = Len(text) /\ text[j] = "\n"
    \/ j < Len(text) /\ text[j] = "\n" /\ text[j + 1] = "R"

RECURSIVE MatchEnd(_, _)
\* (.+?) taken lazily from position e: the first end after which LookAhead holds
MatchEnd(text, e) == IF LookAhead(text, e + 1) THEN e ELSE MatchEnd(text, e + 1)

RECURSIVE FindAll(_, _)
\* re.findall of the pattern from position i. After a marker followed by
\* whitespace only, \s* gives back its last character to (.+?).
FindAll(text, i) ==
    LET p == NextMarker(text, i)
        b == SkipSpace(text, p + 1)
    IN IF p = 0 THEN <<>>
       ELSE IF b <= Len(text)
       THEN LET e == MatchEnd(text, b)
            IN <<SubSeq(text, b, e)>> \o FindAll(text, e + 1)
       ELSE IF p = Len(text) THEN <<>>
       ELSE <<SubSeq(text, Len(text), Len(text))>>

RECURSIVE Split(_, _)
\* text.split("\n"), acc being the line begun
Split(text, acc) ==
    IF text = <<>> THEN <<acc>>
    ELSE IF Head(text) = "\n" THEN <<acc>> \o Split(Tail(text), <<>>)
    ELSE Split(Tail(text), Append(acc, Head(text)))

RECURSIVE DropLeft(_)
DropLeft(line) ==
    IF line # <<>> /\ Head(line) \in {" ", "-"} THEN DropLeft(Tail(line)) ELSE line

RECURSIVE DropRight(_)
DropRight(line) ==
    IF line # <<>> /\ line[Len(line)] \in {" ", "-"}
    THEN DropRight(SubSeq(line, 1, Len(line) - 1)) ELSE line

\* s.strip("*-0123456789. " and the bullet): whole tokens " " and "-" go
\* from both ends, and so do the asterisks of a marker that ends up first or last
CharStrip(line) ==
    LET t == DropRight(DropLeft(line))
    IN IF t = <<>> THEN Item(<<>>, 0, 0)
       ELSE Item(t, IF t[1] \in {"Q", "R"} THEN 2 ELSE 0,
                    IF t[Len(t)] = "Q" THEN 2 ELSE 0)

\* the non-blank lines that do not start with "**", stripped, longer than 20
FallbackLines(text) ==
    LET lines == Split(text, <<>>)
        kept == SelectSeq(lines, LAMBDA l : Strip(l) # <<>> /\ l[1] \notin {"Q", "R"})
        stripped == [i \in 1..Len(kept) |-> CharStrip(kept[i])]
    IN SelectSeq(stripped, LAMBDA it : ItemLen(it) > 20)

\* [q.strip() for q in questions if q.strip()]
Questions(text) ==
    LET questions == FindAll(text, 1)
        nonblank == SelectSeq(questions, LAMBDA q : Strip(q) # <<>>)
    IN [i \in 1..Len(nonblank) |-> Item(Strip(nonblank[i]), 0, 0)]

\* the list is returned whole (mutation of generate_suggestions)
generate_suggestions_untruncated(suggestions_text) ==
    IF Questions(suggestions_text) # <<>> THEN Questions(suggestions_text)
    ELSE FallbackLines(suggestions_text)

\* generate_suggestions, from the reply of the model on
generate_suggestions(suggestions_text) ==
    LET suggestions == IF Questions(suggestions_text) # <<>>
                       THEN Questions(suggestions_text)
                       ELSE FallbackLines(suggestions_text)
    IN SubSeq(suggestions, 1, IF Len(suggestions) < 3 THEN Len(suggestions) ELSE 3)

\* the model has replied to the suggestion prompt
InitSuggestions ==
    /\ Deployed
    /\ ~mongo_service /\ ~dynamo_service
    /\ \E text \in Replies(MaxSegments) : last = [op |-> "suggestions_text", text |-> text]

ParseSuggestions ==
    /\ last.op = "suggestions_text"
    /\ last' = [op |-> "generate_suggestions", text |-> last.text,
                result |-> generate_suggestions(last.text)]
    /\ UNCHANGED <<cfgvars, filevars, mongovars, dynamovars, now, live>>

SpecSuggestions == InitSuggestions /\ [][ParseSuggestions]_vars

\* ------------------------------------------ reflecting-question parser
\* A reply is a sequence of characters: "1" a digit, ".", " ", "\n", "-" a
\* bullet character, "a" any other character.
MaxPieces == 5

\* the pieces replies are made of, and the replies of up to n pieces
Pieces ==
    {<<"1">>, <<".">>, <<" ">>, <<"\n">>, <<"-">>,
     <<"1", ".", " ", "a", "\n">>, <<"-", " ", "a", "\n">>}

RECURSIVE ResponseTexts(_)
ResponseTexts(n) ==
    IF n = 0 THEN {<<>>}
    ELSE ResponseTexts(n - 1) \cup {r \o g : r \in ResponseTexts(n - 1), g \in Pieces}

RECURSIVE SkipDigits(_, _)
\* \d+ taken greedily: the first position at or after i that is no digit
SkipDigits(text, i) ==
    IF i <= Len(text) /\ text[i] = "1" THEN SkipDigits(text, i + 1) ELSE i

RECURSIVE LineEnd(_, _)
\* (.+) taken greedily from position k: the last position before a newline
LineEnd(text, k) ==
    IF k < Len(text) /\ text[k + 1] # "\n" THEN LineEnd(text, k + 1) ELSE k

RECURSIVE LastSpace(_, _)
\* the last position at or after j that holds a space, or 0
LastSpace(text, j) ==
    IF j > Len(text) THEN 0
    ELSE LET s == LastSpace(text, j + 1)
         IN IF s # 0 THEN s ELSE IF text[j] = " " THEN j ELSE 0

RECURSIVE FindNumbered(_, _)
\* re.findall(r'\d+\.\s*(.+)', text) from position i. When only whitespace
\* follows the dot, \s* gives characters back until (.+) can take a space.
FindNumbered(text, i) ==
    IF i > Len(text) THEN <<>>
    ELSE IF text[i] # "1" THEN FindNumbered(text, i + 1)
    ELSE LET j == SkipDigits(text, i)
         IN IF j > Len(text) \/ text[j] # "." THEN FindNumbered(text, i + 1)
            ELSE LET k == SkipSpace(text, j + 1)
                     s == LastSpace(text, j + 1)
                 IN IF k <= Len(text)
                    THEN <<SubSeq(text, k, LineEnd(text, k))>>
                         \o FindNumbered(text, LineEnd(text, k) + 1)
                    ELSE IF s # 0
                    THEN <<SubSeq(text, s, s)>> \o FindNumbered(text, s + 1)
                    ELSE FindNumbered(text, i + 1)

\* [q.strip('-•* ') for q in response.split('\n') if q.strip()]
BulletLines(text) ==
    LET lines == Split(text, <<>>)
        kept == SelectSeq(lines, LAMBDA l : Strip(l) # <<>>)
    IN [i \in 1..Len(kept) |-> DropRight(DropLeft(kept[i]))]

\* the list is returned whole (mutation of generate_reflecting_questions)
generate_reflecting_questions_uncut(response) ==
    IF FindNumbered(response, 1) # <<>> THEN FindNumbered(response, 1)
    ELSE BulletLines(response)

\* generate_reflecting_questions, from the reply of the model on
generate_reflecting_questions(response) ==
    LET questions == IF FindNumbered(response, 1) # <<>>
                     THEN FindNumbered(response, 1)
                     ELSE BulletLines(response)
    IN SubSeq(questions, 1, IF Len(questions) < 4 THEN Len(questions) ELSE 4)

\* the model has replied to the reflecting-question prompt
InitReflecting ==
    /\ Deployed
    /\ ~mongo_service /\ ~dynamo_service
    /\ \E text \in ResponseTexts(MaxPieces) : last = [op |-> "response", text |-> text]

ParseReflecting ==
    /\ last.op = "response"
    /\ last' = [op |-> "generate_reflecting_questions", text |-> last.text,
                result |-> generate_reflecting_questions(last.text)]
    /\ UNCHANGED <<cfgvars, filevars, mongovars, dynamovars, now, live>>

SpecReflecting == InitReflecting /\ [][ParseReflecting]_vars

\* ------------------------------------------- research request, by stage
\* the statements of the try block of conduct_research, then the storage calls
StageOrder == Stages \o <<"persist">>

\* a research request is between two of its stages
Running == last.op = "research" /\ last.pc # "done"

\* the first two stages change places (mutation of NextStage)
NextStageSwapped(stage) ==
    CASE stage = "search" -> "notes"
      [] stage = "notes" -> "summary"
      [] stage = "summary" -> "insights"
      [] OTHER -> StageOrder[StageIndex(stage, 1) + 1]

\* the statement that follows the call of this stage
NextStage(stage) == StageOrder[StageIndex(stage, 1) + 1]

\* POST /research is received: fail names the stage whose call will raise,
\* k the number of results the search will return
research_begin(session_id, topic, num, k, fail) ==
    /\ initialized
    /\ ~Running
    /\ k <= num
    /\ last' = [op |-> "research", session_id |-> session_id, topic |-> topic,
                num_results |-> num, found |-> k, fail |-> fail, pc |-> "search",
                trace |-> <<>>, status |-> 0, llm_calls |-> 0, writes |-> <<>>]
    /\ UNCHANGED <<cfgvars, filevars, mongovars, dynamovars, now, live>>

\* one call of the try block: an exception, or HTTPException(404) after an
\* empty search, reaches the except clause and the request ends with 500
RunStage(stage) ==
    /\ last.op = "research"
    /\ last.pc = stage
    /\ LET raises == last.fail = stage \/ (stage = "search" /\ last.found = 0)
       IN last' = [last EXCEPT !.trace = Append(@, stage),
                               !.pc = IF raises THEN "done" ELSE NextStage(stage),
                               !.status = IF raises THEN 500 ELSE @,
                               !.llm_calls = IF stage = "search" THEN @ ELSE @ + 1]
    /\ UNCHANGED <<cfgvars, filevars, mongovars, dynamovars, now, live>>

research_search == RunStage("search")

research_summary == RunStage("summary")

research_notes == RunStage("notes")

research_insights == RunStage("insights")

research_suggestions == RunStage("suggestions")

research_questions == RunStage("questions")

research_report == RunStage("report")

\* get_session, update_session and add_search_history, then the response
research_persist(f1, f2, f3) ==
    /\ last.op = "research"
    /\ last.pc = "persist"
    /\ LET session_id == last.session_id
           results == SearchResults(last.found)
           research_entry == [timestamp |-> now, topic |-> last.topic, results |-> results]
           g == SM_get_session(Store, f1, session_id)
           session == ("research_history" :> <<research_entry>>)
                      @@ ("current_topic" :> last.topic)
                      @@ ("sources" :> results)
                      @@ Nested(g.results)
           u == IF DOMAIN g.results # {}
                THEN SM_update_session(Store, f2, session_id, session, now)
                ELSE [st |-> Store, raised |-> FALSE]
           a == SM_add_search_history(u.st, f3, session_id,
                    [query |-> last.topic, timestamp |-> now,
                     num_results |-> last.num_results], now)
           updates == IF DOMAIN g.results # {}
                      THEN <<Write("update_session", u)>> ELSE <<>>
       IN IF u.raised
          THEN /\ WithinBounds(u.st)
               /\ Commit(u.st)
               /\ last' = [last EXCEPT !.trace = Append(@, "persist"), !.pc = "done",
                                       !.status = 500, !.writes = updates]
          ELSE /\ WithinBounds(a.st)
               /\ Commit(a.st)
               /\ last' = [last EXCEPT !.trace = Append(@, "persist"), !.pc = "done",
                                       !.status = IF a.raised THEN 500 ELSE 200,
                                       !.writes = updates \o <<Write("add_search_history", a)>>]
    /\ UNCHANGED <<cfgvars, now, live>>

NextStages ==
    \/ initialize
    \/ ~Running /\ \E s \in Sids : create_or_get_session(s, NoFault, NoFault)
    \/ \E s \in Sids, t \in ResearchTopics, k \in 0..1, fail \in FailStages \cup {"none"} :
          research_begin(s, t, 2, k, fail)
    \/ research_search
    \/ research_summary
    \/ research_notes
    \/ research_insights
    \/ research_suggestions
    \/ research_questions
    \/ research_report
    \/ \E f \in FaultsNow : research_persist(f, f, f)

SpecStages == Init /\ [][NextStages]_vars

\* ------------------------------------------- requests on the event loop
\* The handlers are coroutines of one event loop: thread is the request whose
\* coroutine runs on the loop's thread (0: the loop is idle), pc the place of
\* each request, session the mapping its get_session returned.
Requests == {1, 2}

Kinds == {"chat", "history"}

IdleLoop ==
    [op |-> "loop", thread |-> 0,
     pc |-> [r \in Requests |-> "none"],
     kind |-> [r \in Requests |-> "none"],
     session |-> [r \in Requests |-> EmptyDict],
     status |-> [r \in Requests |-> 0]]

Loop == IF last.op = "loop" THEN last ELSE IdleLoop

\* an awaited facade call gives up the thread when it reaches a driver: the
\* connected document store (an awaited driver call) or the key-value adapter
\* (loop.run_in_executor); the file adapter and the unconnected document-store
\* adapter return without suspending
Suspends == (mongo_service /\ database) \/ dynamo_service

\* a request reaches the server: POST /chat or GET /search-history for "s1"
arrive(r, kind) ==
    /\ initialized
    /\ Loop.pc[r] = "none"
    /\ last' = [Loop EXCEPT !.pc[r] = "arrived", !.kind[r] = kind]
    /\ UNCHANGED <<cfgvars, filevars, mongovars, dynamovars, now, live>>

\* the loop starts the handler of a request: the thread must be free
accept(r) ==
    /\ last.op = "loop"
    /\ last.thread = 0
    /\ last.pc[r] = "arrived"
    /\ last' = [last EXCEPT !.thread = r, !.pc[r] = "read"]
    /\ UNCHANGED <<cfgvars, filevars, mongovars, dynamovars, now, live>>

\* the first facade call has returned: get_session in chat_with_aria (an empty
\* mapping raises), get_search_history in get_search_history
AfterRead(r) ==
    LET g == SM_get_session(Store, NoFault, "s1")
    IN IF last.kind[r] = "history"
       THEN [last EXCEPT !.thread = r, !.pc[r] = "respond"]
       ELSE IF DOMAIN g.results = {}
       THEN [last EXCEPT !.thread = r, !.pc[r] = "respond", !.status[r] = 500]
       ELSE [last EXCEPT !.thread = r, !.pc[r] = "model",
                         !.session[r] = Nested(g.results)]

\* await storage_manager.get_session / get_search_history
call_read(r) ==
    /\ last.op = "loop"
    /\ last.thread = r
    /\ last.pc[r] = "read"
    /\ last' = IF Suspends THEN [last EXCEPT !.thread = 0, !.pc[r] = "read_wait"]
               ELSE AfterRead(r)
    /\ UNCHANGED <<cfgvars, filevars, mongovars, dynamovars, now, live>>

\* the loop resumes the coroutine when the thread is free
resume_read(r) ==
    /\ last.op = "loop"
    /\ last.thread = 0
    /\ last.pc[r] = "read_wait"
    /\ last' = AfterRead(r)
    /\ UNCHANGED <<cfgvars, filevars, mongovars, dynamovars, now, live>>

\* generate_llm_response: openai.chat.completions.create is called on the
\* loop's thread, which waits for the reply
model_call(r) ==
    /\ last.op = "loop"
    /\ last.thread = r
    /\ last.pc[r] = "model"
    /\ last' = [last EXCEPT !.pc[r] = "model_wait"]
    /\ UNCHANGED <<cfgvars, filevars, mongovars, dynamovars, now, live>>

\* the reply of the model arrives, or the call raises
model_reply(r, raises) ==
    /\ last.op = "loop"
    /\ last.pc[r] = "model_wait"
    /\ last' = IF raises THEN [last EXCEPT !.pc[r] = "respond", !.status[r] = 500]
               ELSE [last EXCEPT !.pc[r] = "write"]
    /\ UNCHANGED <<cfgvars, filevars, mongovars, dynamovars, now, live>>

\* update_session has returned
Written(r, message, response) ==
    LET conversation_entry == [timestamp |-> now, user |-> message,
                               assistant |-> response]
        session == ("conversation_history" :> <<conversation_entry>>)
                   @@ last.session[r]
        u == SM_update_session(Store, NoFault, "s1", session, now)
    IN /\ WithinBounds(u.st)
       /\ Commit(u.st)
       /\ last' = [last EXCEPT !.thread = r, !.pc[r] = "respond",
                               !.status[r] = IF u.raised THEN 500 ELSE 200]

\* await storage_manager.update_session
call_write(r) ==
    /\ last.op = "loop"
    /\ last.thread = r
    /\ last.pc[r] = "write"
    /\ IF Suspends
       THEN /\ last' = [last EXCEPT !.thread = 0, !.pc[r] = "write_wait"]
            /\ UNCHANGED <<filevars, mongovars, dynamovars>>
       ELSE \E m \in Messages, a \in Responses : Written(r, m, a)
    /\ UNCHANGED <<cfgvars, now, live>>

resume_write(r) ==
    /\ last.op = "loop"
    /\ last.thread = 0
    /\ last.pc[r] = "write_wait"
    /\ \E m \in Messages, a \in Responses : Written(r, m, a)
    /\ UNCHANGED <<cfgvars, now, live>>

\* the handler returns and the loop's thread is free again
respond(r) ==
    /\ last.op = "loop"
    /\ last.thread = r
    /\ last.pc[r] = "respond"
    /\ last' = [last EXCEPT !.thread = 0, !.pc[r] = "done",
                            !.status[r] = IF @ = 0 THEN 200 ELSE @]
    /\ UNCHANGED <<cfgvars, filevars, mongovars, dynamovars, now, live>>

NextLoop ==
    \/ initialize
    \/ \E r \in Requests, kind \in Kinds : arrive(r, kind)
    \/ \E r \in Requests : accept(r)
    \/ \E r \in Requests : call_read(r)
    \/ \E r \in Requests : resume_read(r)
    \/ \E r \in Requests : model_call(r)
    \/ \E r \in Requests, raises \in BOOLEAN : model_reply(r, raises)
    \/ \E r \in Requests : call_write(r)
    \/ \E r \in Requests : resume_write(r)
    \/ \E r \in Requests : respond(r)

SpecLoop == Init /\ [][NextLoop]_vars

\* ------------------------------------------------------ chat context
MaxTurns == 6

MaxEntries == 2

\* recent_conversations = conversation_history[-5:]
ContextTurns == 5

\* a stored session: research entries and conversation turns, numbered in
\* the order they were appended
SessionDocs ==
    {[research_history |-> [i \in 1..k |-> i], conversation_history |-> [i \in 1..n |-> i]] :
        k \in 0..MaxEntries, n \in 0..MaxTurns}

\* list[-n:]
LastN(list, n) ==
    SubSeq(list, IF Len(list) > n THEN Len(list) - n + 1 ELSE 1, Len(list))

\* the context string: the latest research entry and the recent turns, both
\* added only when research_history is not empty
ContextOf(research_history, conversation_history) ==
    IF research_history = <<>>
    THEN [research |-> <<>>, turns |-> <<>>]
    ELSE [research |-> <<research_history[Len(research_history)]>>,
          turns |-> LastN(conversation_history, ContextTurns)]

\* chat_with_aria without request.history: session is the mapping that
\* storage_manager.get_session returned
chat_context(session) ==
    ContextOf(DictGetList(session, "research_history"),
              DictGetList(session, "conversation_history"))

\* ChatSession.get_context_for_llm
get_context_for_llm(self) == ContextOf(self.research_history, self.conversation_history)

\* a chat message without history arrives for a session stored by one backend
InitContext ==
    /\ Deployed
    /\ ~mongo_service /\ ~dynamo_service
    /\ \E doc \in SessionDocs, backend \in {"mongodb", "dynamodb", "file"} :
          last = [op |-> "chat_request", stored |-> doc, backend |-> backend]

BuildContext ==
    /\ last.op = "chat_request"
    /\ last' = [op |-> "chat_context", stored |-> last.stored, backend |-> last.backend,
                context |-> chat_context(last.backend :> last.stored)]
    /\ UNCHANGED <<cfgvars, filevars, mongovars, dynamovars, now, live>>

SessionContext ==
    /\ last.op = "chat_request"
    /\ last' = [op |-> "get_context_for_llm", stored |-> last.stored,
                backend |-> last.backend, context |-> get_context_for_llm(last.stored)]
    /\ UNCHANGED <<cfgvars, filevars, mongovars, dynamovars, now, live>>

SpecContext == InitContext /\ [][BuildContext \/ SessionContext]_vars

\* ------------------------------------------------ chat turn, by stage
\* the histories a chat request is sent with: none, or one entry
ShortHistories == {h \in Histories : Len(h) = 0 \/ (Len(h) = 1 /\ h[1].content = "other")}

\* a chat request is between two of its stages
Chatting == last.op = "chat" /\ last.pc # "done"

\* the session is written before the model is called (mutation of NextChatStage)
NextChatStageWriteFirst(stage) ==
    CASE stage = "get_session" -> "update_session"
      [] stage = "update_session" -> "model"
      [] OTHER -> "done"

\* the statement that follows this call of the try block
NextChatStage(stage) ==
    CASE stage = "get_session" -> "model"
      [] stage = "model" -> "update_session"
      [] OTHER -> "done"

\* POST /chat is received
chat_begin(session_id, message, history, llm_fails) ==
    /\ initialized
    /\ ~Chatting
    /\ last' = [op |-> "chat", session_id |-> session_id, message |-> message,
                history |-> history, llm_fails |-> llm_fails,
                held |-> Held(session_id), pc |-> "get_session", trace |-> <<>>,
                session |-> EmptyDict, read_errors |-> {}, messages |-> <<>>,
                llm_calls |-> 0, status |-> 0, writes |-> <<>>]
    /\ UNCHANGED <<cfgvars, filevars, mongovars, dynamovars, now, live>>

\* session = await storage_manager.get_session(...): an empty mapping raises
\* HTTPException(404), which the except clause turns into 500
chat_get_session(f) ==
    /\ last.op = "chat"
    /\ last.pc = "get_session"
    /\ LET g == SM_get_session(Store, f, last.session_id)
       IN last' = [last EXCEPT !.trace = Append(@, "get_session"),
                               !.session = Nested(g.results),
                               !.read_errors = g.errors,
                               !.pc = IF DOMAIN g.results = {} THEN "done"
                                      ELSE NextChatStage("get_session"),
                               !.status = IF DOMAIN g.results = {} THEN 500 ELSE @]
    /\ UNCHANGED <<cfgvars, filevars, mongovars, dynamovars, now, live>>

\* a model call that raises does not end the turn (mutation of chat_model)
chat_model_ignores_failure ==
    /\ last.op = "chat"
    /\ last.pc = "model"
    /\ last' = [last EXCEPT !.trace = Append(@, "model"),
                            !.messages = chat_messages(last.history, last.message),
                            !.llm_calls = @ + 1,
                            !.pc = NextChatStage("model")]
    /\ UNCHANGED <<cfgvars, filevars, mongovars, dynamovars, now, live>>

\* the message list is built and generate_llm_response is called once
chat_model ==
    /\ last.op = "chat"
    /\ last.pc = "model"
    /\ last' = [last EXCEPT !.trace = Append(@, "model"),
                            !.messages = chat_messages(last.history, last.message),
                            !.llm_calls = @ + 1,
                            !.pc = IF last.llm_fails THEN "done" ELSE NextChatStage("model"),
                            !.status = IF last.llm_fails THEN 500 ELSE @]
    /\ UNCHANGED <<cfgvars, filevars, mongovars, dynamovars, now, live>>

\* the turn is appended to the mapping and update_session is called
chat_update_session(f, response) ==
    /\ last.op = "chat"
    /\ last.pc = "update_session"
    /\ LET conversation_entry == [timestamp |-> now, user |-> last.message,
                                  assistant |-> response]
           session == ("conversation_history" :> <<conversation_entry>>)
                      @@ last.session
           u == SM_update_session(Store, f, last.session_id, session, now)
       IN /\ WithinBounds(u.st)
          /\ Commit(u.st)
          /\ last' = [last EXCEPT !.trace = Append(@, "update_session"),
                                  !.pc = NextChatStage("update_session"),
                                  !.status = IF u.raised THEN 500
                                             ELSE IF @ = 0 THEN 200 ELSE @,
                                  !.writes = <<Write("update_session", u)>>]
    /\ UNCHANGED <<cfgvars, now, live>>

NextChat ==
    \/ initialize
    \/ ~Chatting /\ \E s \in Sids : create_or_get_session(s, NoFault, NoFault)
    \/ \E s \in Sids, m \in ChatInputs, h \in ShortHistories, llm_fails \in BOOLEAN :
          chat_begin(s, m, h, llm_fails)
    \/ \E f \in FaultsNow : chat_get_session(f)
    \/ chat_model
    \/ \E f \in FaultsNow, a \in Responses : chat_update_session(f, a)

SpecChat == Init /\ [][NextChat]_vars

\* ---------------------------------------------------------- full research
MaxOrganic == 22

\* FullResearchRequest.num_results, 20 when the request leaves it out
NumResultsFull == {1, 20, 25}

\* the organic results of one search, each a link: n results, every link once
Organic(n) == [i \in 1..n |-> i]

OrganicResults == {Organic(n) : n \in 0..MaxOrganic}

\* list[:k]
Slice(list, k) == SubSeq(list, 1, IF Len(list) < k THEN Len(list) ELSE k)

\* PlanningAgent.fetch_articles: one search for the query as given
fetch_articles(organic, num_results, fault) ==
    IF fault THEN [raised |-> 500, ret |-> <<>>]
    ELSE [raised |-> 0, ret |-> Slice(organic, num_results)]

\* ComparisonAgent.compare_and_extract: the prompt is an f-string that reads
\* search_query and report_topic, names bound nowhere, so building it raises
\* NameError before the model is called
compare_and_extract(articles) ==
    [raised |-> 500, calls |-> 0, ret |-> None]

RECURSIVE DropHashes(_)
DropHashes(line) == IF line # <<>> /\ Head(line) = "#" THEN DropHashes(Tail(line)) ELSE line

\* re.sub(r'^\s*#+\s*', '', line)
CleanLine(line) ==
    LET t == LStrip(line)
    IN IF t # <<>> /\ Head(t) = "#" THEN LStrip(DropHashes(t)) ELSE line

RECURSIVE Join(_)
\* '\n'.join(lines)
Join(lines) ==
    IF Len(lines) = 0 THEN <<>>
    ELSE IF Len(lines) = 1 THEN lines[1]
    ELSE lines[1] \o <<"\n">> \o Join(Tail(lines))

RECURSIVE Collapse(_, _)
\* re.sub(r'\n{3,}', '\n\n', text), run being the newlines just passed
Collapse(text, run) ==
    IF text = <<>> THEN <<>>
    ELSE IF Head(text) = "\n"
         THEN (IF run < 2 THEN <<"\n">> ELSE <<>>) \o Collapse(Tail(text), run + 1)
    ELSE <<Head(text)>> \o Collapse(Tail(text), 0)

\* ReportGenerationAgent.clean_report
clean_report(report) ==
    LET lines == Split(report, <<>>)
        cleaned_lines == [i \in 1..Len(lines) |-> CleanLine(lines[i])]
    IN Strip(Collapse(Join(cleaned_lines), 0))

\* ReportGenerationAgent.generate_structured_report
generate_structured_report(reply) ==
    LET report == generate_llm_response(reply)
    IN IF report.raised # 0 THEN [raised |-> 500, calls |-> 1, ret |-> None]
       ELSE [raised |-> 0, calls |-> 1, ret |-> Text(clean_report(report.ret.text))]

FullOutcome(num_results, status, stages, articles, relevant_summary, structured_report, calls) ==
    [op |-> "full_research", num_results |-> num_results, status |-> status,
     stages |-> stages, articles |-> articles, relevant_summary |-> relevant_summary,
     structured_report |-> structured_report, llm_calls |-> calls]

\* a full-research request has arrived; the search service and the model
\* will answer as drawn
InitFull ==
    /\ Deployed
    /\ ~mongo_service /\ ~dynamo_service
    /\ \E num_results \in NumResultsFull, organic \in OrganicResults,
          fault \in BOOLEAN, reply \in ApiReplies :
          last = [op |-> "full_research_request", num_results |-> num_results,
                  organic |-> organic, fault |-> fault, reply |-> reply]

\* POST /full-research
full_research ==
    /\ last.op = "full_research_request"
    /\ LET n == last.num_results
           fetched == fetch_articles(last.organic, n, last.fault)
           articles == fetched.ret
           relevant == compare_and_extract(articles)
           reported == generate_structured_report(last.reply)
       IN last' =
            IF fetched.raised # 0
            THEN FullOutcome(n, 500, <<"fetch">>, <<>>, None, None, 0)
            ELSE IF articles = <<>>
            THEN FullOutcome(n, 404, <<"fetch">>, articles, None, None, 0)
            ELSE IF relevant.raised # 0
            THEN FullOutcome(n, 500, <<"fetch", "compare">>, articles, None, None,
                             relevant.calls)
            ELSE IF reported.raised # 0
            THEN FullOutcome(n, 500, <<"fetch", "compare", "report">>, articles,
                             relevant.ret, None, relevant.calls + reported.calls)
            ELSE FullOutcome(n, 200, <<"fetch", "compare", "report">>, articles,
                             relevant.ret, reported.ret, relevant.calls + reported.calls)
    /\ UNCHANGED <<cfgvars, filevars, mongovars, dynamovars, now, live>>

SpecFull == InitFull /\ [][full_research]_vars

\* ------------------------------------------------------------ properties
Backends == {"mongodb", "dynamodb", "file"}

\* the record a backend stores for the session, read without any fault
BackendSession(k, session_id) ==
    CASE k = "mongodb" -> mongo_get_session(Store, TRUE, 0, session_id).ret
      [] k = "dynamodb" -> ddb_get_session(Store, 0, session_id).ret
      [] OTHER -> file_get_session(Store, session_id)

IsPrefix(s, t) == Len(s) <= Len(t) /\ SubSeq(t, 1, Len(s)) = s

\* the backends the configuration enables: the document store and the
\* key-value store when present, the file store when neither is
EnabledBackends ==
    IF mongo_service \/ dynamo_service
    THEN (IF mongo_service THEN {"mongodb"} ELSE {})
         \cup (IF dynamo_service THEN {"dynamodb"} ELSE {})
    ELSE IF file_service THEN {"file"} ELSE {}

\* C1: for every session id and every backend in which create_session stored
\* the session, the get_session that immediately follows returns for that
\* backend a record with the same session_id and with empty research_history
\* and conversation_history.
C1_CreateThenGet ==
    (last.op = "create_or_get_session" /\ last.writes # <<>> /\ ~last.writes[1].raised)
    => \A k \in DOMAIN last.created :
          LET r == SM_get_session(Store, NoFault, last.sid).results
          IN /\ k \in DOMAIN r
             /\ Truthy(r[k])
             /\ r[k].session_id = last.sid
             /\ {"research_history", "conversation_history"} \subseteq DOMAIN r[k]
             /\ r[k].research_history = <<>>
             /\ r[k].conversation_history = <<>>

\* every facade write of the last request ran and no backend failed in it
WritesClean == last.writes # <<>> /\ \A i \in DOMAIN last.writes : last.writes[i].errors = {}

\* C2: after a successful research call on an existing session, in which no
\* backend failed, the session read back has current_topic equal to the
\* researched topic and a research_history that is the one before the call
\* plus exactly one entry.
C2_ResearchAppendsOne ==
    (last.op = "conduct_research" /\ last.status = 200 /\ last.before.held /\ WritesClean)
    => LET after == ReadBack(last.sid)
           rh == Hist(after, "research_history")
       IN /\ Truthy(after)
          /\ "current_topic" \in DOMAIN after
          /\ after.current_topic = last.arg
          /\ Len(rh) = Len(last.before.research_history) + 1
          /\ IsPrefix(last.before.research_history, rh)
          /\ rh[Len(rh)].topic = last.arg

\* C3: in every step that is not a delete_session of the id, the
\* research_history and conversation_history a backend stores for a session
\* only grow: the value before the step is a prefix of the value after it.
C3_HistoriesAppendOnly ==
    [][\A s \in Sids, k \in Backends :
          (Truthy(BackendSession(k, s)) /\ ~(last'.op = "delete_session" /\ last'.sid = s))
          => /\ IsPrefix(Hist(BackendSession(k, s), "research_history"),
                         Hist(BackendSession(k, s)', "research_history"))
             /\ IsPrefix(Hist(BackendSession(k, s), "conversation_history"),
                         Hist(BackendSession(k, s)', "conversation_history"))]_vars

\* C4: once create_session has returned for an id and until delete_session is
\* called for it, get_session yields a session record from at least one
\* backend, in every backend configuration.
C4_CreatedIsRetrievable ==
    \A s \in live :
        LET r == SM_get_session(Store, NoFault, s).results
        IN \E k \in DOMAIN r : Truthy(r[k])

\* C5: after a delete_session that no backend failed, the session is no longer
\* retrievable and every enabled backend returns an empty search history and
\* an empty saved research for the id.
C5_DeleteCascades ==
    (last.op = "delete_session" /\ last.status = 200 /\ last.writes[1].errors = {})
    => LET r == SM_get_session(Store, NoFault, last.sid).results
       IN /\ \A k \in DOMAIN r : ~Truthy(r[k])
          /\ mongo_service =>
                /\ mongo_get_search_history(Store, database, 0, last.sid).ret = <<>>
                /\ mongo_get_saved_research(Store, database, 0, last.sid).ret = <<>>
          /\ dynamo_service =>
                /\ ddb_get_search_history(Store, 0, last.sid).ret = <<>>
                /\ ddb_get_saved_research(Store, 0, last.sid).ret = <<>>
          /\ file_service =>
                /\ file_get_search_history(Store, last.sid) = <<>>
                /\ file_get_saved_research(Store, last.sid) = <<>>

\* C6: every mutating facade operation invokes every enabled backend and
\* returns normally, whichever backends raise.
C6_WritesNeverRaise ==
    \A i \in DOMAIN last.writes :
        /\ ~last.writes[i].raised
        /\ EnabledBackends \subseteq last.writes[i].calls

\* C7: when neither the document store nor the key-value store is enabled and
\* available, the file store is the backend, and a session that was created
\* and then updated by a research call shows the update on the next read.
C7_FileStoreServesAll ==
    (initialized /\ ~use_mongodb /\ ~dynamo_service)
    => /\ file_service
       /\ (last.op = "conduct_research" /\ last.writes # <<>> /\ last.sid \in live)
          => LET r == SM_get_session(Store, NoFault, last.sid).results
             IN /\ "file" \in DOMAIN r
                /\ Truthy(r["file"])
                /\ "current_topic" \in DOMAIN r["file"]
                /\ r["file"].current_topic = last.arg
                /\ Hist(r["file"], "research_history") # <<>>

\* C8: where the file store exists, when every other backend failed or
\* returned nothing (None or an empty sequence), the mapping a facade read
\* returns holds the file store's result.
C8_ReadFallsBackToFile ==
    file_service =>
    /\ last.op = "create_or_get_session"
       => ((\A k \in DOMAIN last.sessions \ {"file"} : IsNone(last.sessions[k]))
           => "file" \in DOMAIN last.sessions)
    /\ last.op \in {"get_search_history", "get_saved_research"}
       => ((\A k \in DOMAIN last.lists \ {"file"} : last.lists[k] = <<>>)
           => "file" \in DOMAIN last.lists)

\* C9: after a successful chat turn on an existing session, in which no
\* backend failed, the conversation history read back is the one before the
\* turn plus exactly one turn, whose user field is the request message and
\* whose assistant field is the reply.
C9_ChatAppendsOne ==
    (last.op = "chat_with_aria" /\ last.status = 200 /\ last.before.held /\ WritesClean)
    => LET ch == Hist(ReadBack(last.sid), "conversation_history")
       IN /\ Len(ch) = Len(last.before.conversation_history) + 1
          /\ IsPrefix(last.before.conversation_history, ch)
          /\ ch[Len(ch)].user = last.arg
          /\ ch[Len(ch)].assistant \in Responses

\* C10: a chat request for an id that no backend holds is answered with the
\* not-found status 404, which differs from the status 500 of a transport or
\* model failure, makes no model call and writes nothing.
C10_ChatUnknownSession ==
    (last.op = "chat_with_aria" /\ ~last.before.held)
    => /\ last.status = 404
       /\ last.llm_calls = 0
       /\ last.writes = <<>>

\* C11: a research call that succeeds for an id no backend held leaves the
\* session stored: the session read back afterwards exists and its
\* research_history contains the entry of the call.
C11_ResearchCreatesSession ==
    (last.op = "conduct_research" /\ last.status = 200 /\ ~last.before.held)
    => LET after == ReadBack(last.sid)
           rh == Hist(after, "research_history")
       IN /\ Truthy(after)
          /\ \E i \in DOMAIN rh : rh[i].topic = last.arg

\* the data every backend stores
Stored == <<filevars, mongovars, dynamovars>>

\* C12: a research request in which the search or a model call raised makes
\* no facade write and leaves the data of every backend as it was.
C12_FailFast ==
    [][(last'.op = "conduct_research" /\ last'.failed # "none")
       => (last'.writes = <<>> /\ UNCHANGED Stored)]_vars

\* a research request for a stored session failed at its last model call,
\* after every other stage had succeeded
C12_Witness ==
    /\ last.op = "conduct_research"
    /\ last.failed = Stages[Len(Stages)]
    /\ last.llm_calls = Len(Stages) - 1
    /\ Held(last.sid)

\* C13: a research request whose search returned an empty sequence makes no
\* model call and no facade write, and leaves the research history and the
\* search history of every backend as they were.
C13_EmptySearchTerminal ==
    [][(last'.op = "conduct_research" /\ last'.failed = "none" /\ last'.found = 0)
       => (last'.llm_calls = 0 /\ last'.writes = <<>> /\ UNCHANGED Stored)]_vars

\* a research request for a stored session ended on an empty search result
C13_Witness ==
    /\ last.op = "conduct_research"
    /\ last.failed = "none"
    /\ last.found = 0
    /\ Held(last.sid)

\* the kept entries of a history, in order
Kept(history) == SelectSeq(history, LAMBDA e : e.role \in {"user", "ai"} /\ e.content # "")

\* C14: for a request with a non-empty history, the message list is the
\* system prompt, then the kept history entries in order with "ai" replayed
\* as "assistant", then the new message exactly when the last kept entry is
\* not a user entry with that content; the list ends with a user message
\* holding the new message and no message carries the session context.
C14_HistoryMessages ==
    (last.op = "chat_messages" /\ Len(last.history) > 0)
    => LET msgs == last.messages
           kept == Kept(last.history)
           n == Len(kept)
           trailing == n > 0 /\ kept[n].role = "user" /\ kept[n].content = last.message
       IN /\ msgs[Len(msgs)].role = "user"
          /\ msgs[Len(msgs)].content = last.message
          /\ Len(msgs) = 1 + n + (IF trailing THEN 0 ELSE 1)
          /\ msgs[1].role = "system"
          /\ \A i \in 1..n :
                /\ msgs[i + 1].content = kept[i].content
                /\ msgs[i + 1].role = (IF kept[i].role = "ai" THEN "assistant" ELSE "user")
          /\ \A i \in DOMAIN msgs : ~msgs[i].context

\* a history that ends with the new message as a user entry, after an "ai"
\* entry, was turned into a message list
C14_Witness ==
    /\ last.op = "chat_messages"
    /\ Len(last.history) = MaxHistory
    /\ last.history[MaxHistory] = [role |-> "user", content |-> last.message]
    /\ last.history[MaxHistory - 1].role = "ai"
    /\ last.history[MaxHistory - 1].content # ""

\* C15: in the file-only deployment, deleting the saved research of a session
\* under a query leaves for that session exactly the records with another
\* query, in their order, and leaves the records of every other session as
\* they were.
C15_FileDeleteSavedResearch ==
    [][\A s \in TwoSids, q \in Topics :
          (last'.op = "delete_saved_research" /\ last'.sid = s /\ last'.arg = q)
          => \A t \in TwoSids :
                file_get_saved_research(Store, t)' =
                    IF t = s
                    THEN SelectSeq(file_get_saved_research(Store, t), LAMBDA r : r.query # q)
                    ELSE file_get_saved_research(Store, t)]_vars

\* a delete emptied the list of a session that had saved records, while the
\* other session holds as many records as the bound allows
C15_Witness ==
    /\ last.op = "delete_saved_research"
    /\ file_get_saved_research(Store, last.sid) = <<>>
    /\ last.sid \in DOMAIN saved_research
    /\ \E t \in TwoSids \ {last.sid} : Len(file_get_saved_research(Store, t)) = MaxRecords

\* C16: with the document store connected, after a delete of the saved
\* research of a session under a query in which no backend failed, the saved
\* research the document store returns for the session holds no record with
\* that query.
C16_MongoDeleteSavedResearch ==
    (last.op = "delete_saved_research" /\ mongo_service /\ database /\ WritesClean)
    => LET items == mongo_get_saved_research(Store, database, 0, last.sid).ret
       IN \A i \in DOMAIN items : items[i].query # last.arg

\* C17: after a successful research call in which no backend failed, every
\* backend that returns a search history for the session returns an entry
\* whose query is the searched topic and whose num_results is the number of
\* results the search returned.
C17_SearchHistoryEntry ==
    (last.op = "conduct_research" /\ last.status = 200 /\ WritesClean)
    => LET lists == SM_get_search_history(Store, NoFault, last.sid).results
       IN \A k \in DOMAIN lists :
             \E i \in DOMAIN lists[k] :
                /\ lists[k][i].query = last.arg
                /\ lists[k][i].num_results = last.found

\* C18: after a research or chat request that updated the session and in
\* which no backend failed, every backend that stores the session stores it
\* with an updated_at equal to the time of the request.
C18_UpdatedAtRefreshed ==
    (last.op \in {"conduct_research", "chat_with_aria"} /\ last.status = 200 /\ WritesClean)
    => \A k \in Backends :
          LET doc == BackendSession(k, last.sid)
          IN Truthy(doc) => ("updated_at" \in DOMAIN doc /\ doc.updated_at = now)

\* text is ret with whitespace only added in front and behind
TrimOf(ret, text) ==
    /\ ret # <<>> => (ret[1] \notin Whitespace /\ ret[Len(ret)] \notin Whitespace)
    /\ \E i \in 0..Len(text) :
          /\ i + Len(ret) <= Len(text)
          /\ SubSeq(text, i + 1, i + Len(ret)) = ret
          /\ \A j \in (1..i) \cup ((i + Len(ret) + 1)..Len(text)) : text[j] \in Whitespace

\* C19: an invocation of the model-call primitive makes exactly one API call;
\* it reports an error when the call raises, returns the content trimmed of
\* its leading and trailing whitespace when the call yields a content, and
\* returns "No response generated." when the call yields none.
C19_ModelCallPrimitive ==
    last.op = "generate_llm_response"
    => LET reply == last.reply
           result == last.result
       IN /\ result.calls = 1
          /\ result.raised = reply.raises
          /\ (~reply.raises /\ HasContent(reply))
                => TrimOf(result.ret, reply.choices[1].message.content.text)
          /\ (~reply.raises /\ ~HasContent(reply)) => result.ret = NoResponse

\* a content with whitespace around a text was returned trimmed
C19_Witness ==
    /\ last.op = "generate_llm_response"
    /\ ~last.reply.raises
    /\ HasContent(last.reply)
    /\ Len(last.result.ret) + 2 <= Len(last.reply.choices[1].message.content.text)
    /\ last.result.ret # <<>>

\* tokens is a contiguous part of the sequence whole
PartOf(tokens, whole) ==
    \E i \in 0..Len(whole) :
        i + Len(tokens) <= Len(whole) /\ SubSeq(whole, i + 1, i + Len(tokens)) = tokens

\* C20: the suggestion parser returns at most 3 items. When the pattern has a
\* match that is not blank, the items are the first non-blank matches in
\* order, trimmed, none reaching into a following line that begins
\* "**Rationale". Otherwise every item is a line of the reply stripped at both
\* ends and longer than 20 characters.
C20_SuggestionParser ==
    last.op = "generate_suggestions"
    => LET result == last.result
           matches == SelectSeq(FindAll(last.text, 1), LAMBDA q : Strip(q) # <<>>)
           lines == Split(last.text, <<>>)
       IN /\ Len(result) <= 3
          /\ matches # <<>>
             => /\ Len(result) = (IF Len(matches) < 3 THEN Len(matches) ELSE 3)
                /\ \A i \in DOMAIN result :
                      /\ result[i] = Item(Strip(matches[i]), 0, 0)
                      /\ ~PartOf(<<"\n", "R">>, result[i].tokens)
          /\ matches = <<>>
             => \A i \in DOMAIN result :
                   /\ ItemLen(result[i]) > 20
                   /\ result[i].tokens[1] \notin {" ", "-"}
                   /\ result[i].tokens[Len(result[i].tokens)] \notin {" ", "-"}
                   /\ \E j \in DOMAIN lines : PartOf(result[i].tokens, lines[j])

\* a reply with four structured questions was cut to three
C20_Witness ==
    /\ last.op = "generate_suggestions"
    /\ Len(Questions(last.text)) = 4
    /\ Len(last.result) = 3

\* the number of places of list that hold x
Count(list, x) == Cardinality({i \in DOMAIN list : list[i] = x})

\* C21: the article set of Agent 1 in a full-research request holds each link
\* at most once and never more than 20 articles, whatever result count the
\* request asks for.
C21_ArticlesUniqueAtMost20 ==
    last.op = "full_research"
    => /\ Len(last.articles) <= 20
       /\ \A i \in DOMAIN last.articles : Count(last.articles, last.articles[i]) = 1

\* C23: a full-research request whose fetch returns at least one article and
\* whose model calls succeed runs fetch, compare/extract and structured report
\* in that order and completes, returning the articles, the analysis text and
\* the cleaned report.
C23_FullResearchCompletes ==
    [][(/\ last.op = "full_research_request"
        /\ ~last.fault
        /\ ~last.reply.raises
        /\ Slice(last.organic, last.num_results) # <<>>)
       => (/\ last'.status = 200
           /\ last'.stages = <<"fetch", "compare", "report">>
           /\ last'.articles = Slice(last.organic, last.num_results)
           /\ ~IsNone(last'.relevant_summary)
           /\ ~IsNone(last'.structured_report))]_vars

\* C22: within one research request the stages run in the order search,
\* summary, notes, insights, suggestions, reflecting questions, report,
\* persistence: the stages run so far are the first stages of that order, each
\* once, the stage to run next is the one after them, and a stage that fails
\* is the last one run.
C22_StagesInOrder ==
    last.op = "research"
    => /\ IsPrefix(last.trace, StageOrder)
       /\ last.pc # "done" => last.pc = StageOrder[Len(last.trace) + 1]
       /\ \A i \in DOMAIN last.trace :
             (last.trace[i] = last.fail \/ (last.trace[i] = "search" /\ last.found = 0))
             => (i = Len(last.trace) /\ last.pc = "done" /\ last.status = 500)

\* a request ran all eight stages and completed
C22_Witness ==
    /\ last.op = "research"
    /\ last.pc = "done"
    /\ last.status = 200
    /\ last.trace = StageOrder

\* C24: a document store that USE_MONGODB disables, or that initialize marked
\* unavailable after a failed connection, is invoked by no facade operation
\* of a later request, neither by its writes nor by its session read.
C24_DisabledBackendNotInvoked ==
    ~use_mongodb
    => /\ \A i \in DOMAIN last.writes : "mongodb" \notin last.writes[i].calls
       /\ "mongodb" \notin DOMAIN last.sessions

\* the one session of a read mapping: the document store's if present,
\* otherwise the key-value store's, otherwise the file store's
PreferredOf(results) ==
    PyOr(DictGet(results, "mongodb"),
         PyOr(DictGet(results, "dynamodb"), DictGet(results, "file")))

\* C25: a handler that needs one session out of the per-backend read mapping
\* takes the document store's result if present, otherwise the key-value
\* store's, otherwise the file store's: whenever that session exists, POST
\* /session reports it as existing and creates nothing.
C25_PreferenceOrder ==
    (last.op = "create_or_get_session" /\ Truthy(PreferredOf(last.sessions)))
    => (last.writes = <<>> /\ last.status = 200)

C27_SlowCallDoesNotBlock ==
    \A r \in Requests, q \in Requests :
        (last.op = "loop" /\ last.pc[r] = "model_wait" /\ last.pc[q] = "arrived")
        => ENABLED accept(q)

\* C28: without explicit history the chat context block holds the latest
\* research entry if the session has one, and the last 5 conversation turns of
\* the session in order (all of them if there are fewer), also for a session
\* that has turns and no research entry.
C28_ChatContext ==
    last.op \in {"chat_context", "get_context_for_llm"}
    => LET research_history == last.stored.research_history
           turns == last.stored.conversation_history
       IN /\ last.context.research =
                (IF research_history = <<>> THEN <<>>
                 ELSE <<research_history[Len(research_history)]>>)
          /\ last.context.turns =
                SubSeq(turns, IF Len(turns) > 5 THEN Len(turns) - 4 ELSE 1, Len(turns))

\* C29: a chat turn makes at most one model call and writes to storage only
\* after it; a turn on an existing session whose read succeeded has made
\* exactly one model call when it ends, with or without explicit history.
C29_OneModelCallBeforeWrite ==
    last.op = "chat"
    => /\ last.llm_calls <= 1
       /\ \A i \in DOMAIN last.trace :
             last.trace[i] = "update_session"
             => (last.llm_calls = 1 /\ \E j \in 1..(i - 1) : last.trace[j] = "model")
       /\ last.writes # <<>> => last.llm_calls = 1
       /\ (last.pc = "done" /\ last.held /\ last.read_errors = {}) => last.llm_calls = 1

\* a turn with explicit history on an existing session was stored
C29_Witness ==
    /\ last.op = "chat"
    /\ last.pc = "done"
    /\ last.held
    /\ last.history # <<>>
    /\ last.status = 200
    /\ last.trace = <<"get_session", "model", "update_session">>

\* C30: after every mutation of the file backend the files on disk equal the
\* maps in memory: loading the files at start-up restores exactly the
\* sessions, the search history and the saved research held in memory.
C30_DiskMirrorsMemory ==
    /\ sessions_file.valid /\ search_history_file.valid /\ saved_research_file.valid
    /\ load_all_data(Store) = [research_sessions |-> research_sessions,
                               search_history |-> search_history,
                               saved_research |-> saved_research]

\* C31: after the file backend's delete_session for an id, neither the three
\* in-memory maps nor the three files hold a session record, a search history
\* or saved research under that id, whatever each map held before.
C31_FileDeleteSessionCascades ==
    (last.op = "delete_session" /\ ~mongo_service /\ ~dynamo_service)
    => LET disk == load_all_data(Store)
       IN /\ last.sid \notin DOMAIN research_sessions
          /\ last.sid \notin DOMAIN search_history
          /\ last.sid \notin DOMAIN saved_research
          /\ last.sid \notin DOMAIN disk.research_sessions
          /\ last.sid \notin DOMAIN disk.search_history
          /\ last.sid \notin DOMAIN disk.saved_research

\* C32: in a full-research request whose fetch returns articles, the
\* compare/extract agent hands the report stage exactly the first 5 of the
\* fetched articles, in fetch order (all of them if fewer), together with its
\* analysis text.
C32_TopFiveToReport ==
    [][(/\ last.op = "full_research_request"
        /\ ~last.fault
        /\ ~last.reply.raises
        /\ Slice(last.organic, last.num_results) # <<>>)
       => LET articles == Slice(last.organic, last.num_results)
              relevant == compare_and_extract(articles)
          IN /\ relevant.raised = 0
             /\ DOMAIN relevant.ret = {"articles", "relevant_summary"}
             /\ relevant.ret.articles = Slice(articles, 5)
             /\ last'.stages = <<"fetch", "compare", "report">>]_vars

\* the pattern \d+\.\s*(.+) matches somewhere in text: a digit, a dot,
\* whitespace, then a character that is no newline
HasNumbered(text) ==
    \E j, k \in DOMAIN text :
        /\ 1 < j /\ j < k
        /\ text[j - 1] = "1"
        /\ text[j] = "."
        /\ \A m \in (j + 1)..(k - 1) : text[m] \in Whitespace
        /\ text[k] # "\n"

\* C33: the reflecting-question parser returns at most 4 items for every
\* reply. When the numbered pattern matches somewhere, the items are the first
\* matches in order, each a non-empty part of one line of the reply; only
\* otherwise are they the first non-blank lines with the bullet characters
\* stripped from both ends.
C33_ReflectingParser ==
    last.op = "generate_reflecting_questions"
    => LET result == last.result
           matches == FindNumbered(last.text, 1)
           lines == SelectSeq(Split(last.text, <<>>), LAMBDA l : Strip(l) # <<>>)
       IN /\ Len(result) <= 4
          /\ HasNumbered(last.text)
             => /\ result # <<>>
                /\ result = Slice(matches, 4)
                /\ \A i \in DOMAIN result :
                      /\ result[i] # <<>>
                      /\ ~PartOf(<<"\n">>, result[i])
                      /\ PartOf(result[i], last.text)
          /\ ~HasNumbered(last.text)
             => /\ matches = <<>>
                /\ Len(result) = (IF Len(lines) < 4 THEN Len(lines) ELSE 4)
                /\ \A i \in DOMAIN result :
                      /\ result[i] = DropRight(DropLeft(lines[i]))
                      /\ result[i] # <<>> => /\ result[i][1] \notin {" ", "-"}
                                             /\ result[i][Len(result[i])] \notin {" ", "-"}

\* a reply with five numbered questions was cut to four
C33_Witness ==
    /\ last.op = "generate_reflecting_questions"
    /\ Len(FindNumbered(last.text, 1)) = 5
    /\ Len(last.result) = 4

\* C34: in a fan-out write the payload the caller passed is unchanged for the
\* caller afterwards, and so is what every later backend of the fan-out
\* receives: when a research request has written its search-history entry,
\* the entry the handler built is still the entry it holds, and the session
\* mapping it passed to update_session is still the mapping it holds.
C34_FanOutPayloadUnchanged ==
    [][(/\ last'.op = "conduct_research"
        /\ last'.writes # <<>>
        /\ last'.writes[Len(last'.writes)].name = "add_search_history")
       => \A num_results \in 1..2 :
             LET entry == [query |-> last'.arg, timestamp |-> now,
                           num_results |-> num_results]
                 session == SM_get_session(Store, NoFault, last'.sid).results
             IN /\ SM_add_search_history(Store, NoFault, last'.sid, entry, now).payload
                      = entry
                /\ SM_update_session(Store, NoFault, last'.sid, Nested(session), now).payload
                      = Nested(session)]_vars

\* C35: a create-or-get request for an id that some enabled backend already
\* holds never invokes create_session: it makes no storage write, and every
\* backend's research_history and conversation_history for the id are what
\* they were before the request.
C35_CreateOrGetIdempotent ==
    [][\A s \in Sids :
          (/\ last'.op = "create_or_get_session"
           /\ last'.sid = s
           /\ \E k \in Backends : Truthy(BackendSession(k, s)))
          => /\ last'.writes = <<>>
             /\ \A k \in Backends :
                   /\ Hist(BackendSession(k, s)', "research_history")
                         = Hist(BackendSession(k, s), "research_history")
                   /\ Hist(BackendSession(k, s)', "conversation_history")
                         = Hist(BackendSession(k, s), "conversation_history")]_vars

\* C36: when the model call of a chat turn fails, the turn ends there with
\* status 500: no step of the turn changes what any backend stores (so
\* conversation_history and updated_at keep their values) and the turn
\* performs no storage write.
C36_FailedChatLeavesSession ==
    [][(last.op = "chat" /\ last.llm_fails /\ Chatting)
       => /\ UNCHANGED <<filevars, mongovars, dynamovars>>
          /\ last'.writes = <<>>
          /\ last.pc = "model"
             => (last'.pc = "done" /\ last'.status = 500 /\ last'.llm_calls = 1)]_vars

\* the model call of a turn on a stored session failed
C36_Witness ==
    /\ last.op = "chat"
    /\ last.llm_fails
    /\ last.held
    /\ last.pc = "done"
    /\ last.trace = <<"get_session", "model">>
    /\ last.status = 500

\* what the file backend holds and returns for a session: its record, its
\* search history, its saved research, and whether each map has its key
FileView(session_id) ==
    [session |-> file_get_session(Store, session_id),
     search_history |-> file_get_search_history(Store, session_id),
     saved_research |-> file_get_saved_research(Store, session_id),
     keys |-> <<session_id \in DOMAIN research_sessions,
                session_id \in DOMAIN search_history,
                session_id \in DOMAIN saved_research>>]

====
